---- MODULE Spec2Model ----
(***************************************************************************)
(* State-machine model of the beamline CAF worker: the pool actor          *)
(* (admission, pending queue, gauges) and the executor actor's retry loop  *)
(* with the retry policy, feature flags and block handlers it calls.       *)
(* Times are milliseconds, as in the source.                               *)
(***************************************************************************)
EXTENDS Integers, Sequences, FiniteSets, TLC

VARIABLES
    env,               \* process environment: the four CP2_* variables
    \* ---- PoolActorState ----
    max_concurrency,   \* max_concurrency_ (from PoolConfig)
    max_queue_size,    \* max_queue_size_ (set once by the constructor)
    current_load,      \* current_load_
    pending_requests,  \* pending_requests_ (std::queue, head = front)
    gauges,            \* worker_queue_depth / worker_active_tasks samples
    pool_log,          \* log records written by the pool handlers
    acks,              \* ExecAssignmentAck records sent upstream
    results,           \* StepResults the pool sent back for its requests
    submitted,         \* history: requests handed to the pool, in order
    dispatched,        \* history: ids of requests given an executor slot
    cancelled,         \* history: ids of requests the cancel handler removed
    completed,         \* history: ids of dispatched requests whose step ended
    turns,             \* number of mailbox messages the pool has handled
    \* ---- ExecutorActorState::execute_with_retry ----
    pc,                \* position of the executor's execute handler
    req,               \* the StepRequest being executed
    context_,          \* BaseBlockExecutor::context_ of the wrapped handler
    attempt,           \* loop variable of execute_with_retry
    elapsed,           \* steady_clock::now() - total_start_time, in ms
    final_result,      \* final_result
    http_status_code,  \* http_status_code
    backoff_delay,     \* backoff_delay chosen for the pending sleep
    returned,          \* the value execute_with_retry returned (or NoResult)
    attempts_started,  \* history: number of execute_single_attempt calls
    last_attempt_end,  \* history: elapsed time when the latest attempt ended
    responses,         \* history: what each handler invocation yielded
    sleeps,            \* history: the backoff delays actually slept
    exhausted_seen,    \* history: is_budget_exhausted has returned true
    step_errors_total, \* Observability: worker_step_errors_total by error_code
    \* ---- IngressActorState ----
    ingress_stdout,    \* what the ingress actor wrote to std::cout
    forwarded,         \* messages the ingress actor sent to worker_
    ingress_turns,     \* number of mailbox messages the ingress has handled
    \* ---- WorkerActorState, Scheduler ----
    worker_out,        \* messages sent and log records written by the worker
    scheduled,         \* history: what Scheduler::schedule_step returned
    \* ---- one call of a function or handler on its own ----
    call,              \* the function called and its arguments
    answer,            \* what the call returned
    \* ---- Observability: the health endpoint and its clients ----
    health_server_running, \* health_server_running_
    health_server_socket,  \* health_server_socket_
    socket_open,       \* the listening socket is open in the kernel
    server_pc,         \* position of the thread in health_server_loop
    stop_pc,           \* position of the caller of stop_health_endpoint
    accept_woken,      \* close() has made the blocked accept() return
    backlog,           \* connections waiting to be accepted
    client,            \* the accepted connection (or NoClient)
    health_sent,       \* history: the responses sent to clients
    health_log,        \* history: what the endpoint logged
    \* ---- worker::ActorPool (runtime/actor_pools.hpp) and its owner ----
    concurrency_,      \* concurrency_
    mu_,               \* mu_: who holds the mutex
    q_,                \* q_ (std::queue of tasks, head = front)
    stop_,             \* stop_
    thread_pc,         \* position of each thread of threads_ in run()
    thread_task,       \* the task each thread has taken from q_
    owner_pc,          \* position of the thread that owns the pool
    joined,            \* number of threads the destructor has joined
    tasks_submitted,   \* history: number of tasks handed to submit
    runs,              \* history: how often each task has been called
    swallowed,         \* history: tasks whose exception run() has swallowed
    queued_at_stop     \* history: length of q_ when stop_ was set

poolVars == <<max_concurrency, max_queue_size, current_load, pending_requests,
              gauges, pool_log, acks, results, submitted, dispatched,
              cancelled, completed, turns>>
execVars == <<pc, req, context_, attempt, elapsed, final_result,
              http_status_code, backoff_delay, returned, attempts_started,
              last_attempt_end, responses, sleeps, exhausted_seen,
              step_errors_total>>
ingressVars == <<ingress_stdout, forwarded, ingress_turns>>
workerVars == <<worker_out, scheduled>>
callVars == <<call, answer>>
healthVars == <<health_server_running, health_server_socket, socket_open,
                server_pc, stop_pc, accept_woken, backlog, client,
                health_sent, health_log>>
actorPoolVars == <<concurrency_, mu_, q_, stop_, thread_pc, thread_task,
                   owner_pc, joined, tasks_submitted, runs, swallowed,
                   queued_at_stop>>
vars == <<env, poolVars, execVars, ingressVars, workerVars, callVars,
         healthVars, actorPoolVars>>

-----------------------------------------------------------------------------
(* Bounds of the model *)

MaxPoolSize == 2
MaxTurns == 5
MaxQueueLen == 3

MaxIngressMsgs == 2

MaxWorkerOut == 2

MaxBackoffAttempt == 66

MaxArrayLen == 1

MaxClients == 2

MaxRetryCount == 3
\* threads of a legacy thread pool, and tasks handed to it
MaxThreads == 2
MaxTasks == 3

EmptyMap == [k \in {} |-> ""]

-----------------------------------------------------------------------------
(* FeatureFlags (core.hpp, second header) *)

Unset == "<unset>"
EnvValues == {Unset, "1", "Yes", "false"}

ToLower(s) ==
    CASE s = "Yes" -> "yes"
      [] s = "TRUE" -> "true"
      [] s = "Password" -> "password"
      [] s = "API_Key_Id" -> "api_key_id"
      [] OTHER -> s

get_env_bool(env_var, default_value) ==
    IF env[env_var] = Unset
    THEN default_value
    ELSE ToLower(env[env_var]) \in {"true", "1", "yes"}

is_advanced_retry_enabled == get_env_bool("CP2_ADVANCED_RETRY_ENABLED", FALSE)
is_complete_timeout_enabled == get_env_bool("CP2_COMPLETE_TIMEOUT_ENABLED", FALSE)
is_queue_management_enabled == get_env_bool("CP2_QUEUE_MANAGEMENT_ENABLED", FALSE)
is_observability_metrics_enabled == get_env_bool("CP2_OBSERVABILITY_METRICS_ENABLED", FALSE)

EnvNames == {"CP2_ADVANCED_RETRY_ENABLED", "CP2_COMPLETE_TIMEOUT_ENABLED",
             "CP2_QUEUE_MANAGEMENT_ENABLED", "CP2_OBSERVABILITY_METRICS_ENABLED"}

-----------------------------------------------------------------------------
(* Pool actor *)

DefaultMaxQueueSize == 1000
NoSample == -1

StepIds == {"s1", "s2"}
\* inputs maps of the requests sent to the pool: with or without a step_id
PoolInputs == {EmptyMap} \cup {[step_id |-> s] : s \in StepIds}

\* Observability::set_queue_depth: the gauge update is commented out
set_queue_depth(g, depth) ==
    IF ~is_observability_metrics_enabled THEN g ELSE g

\* Observability::set_active_tasks: the gauge update is commented out
set_active_tasks(g, count) ==
    IF ~is_observability_metrics_enabled THEN g ELSE g

update_queue_metrics(g, queue, load) ==
    IF ~is_observability_metrics_enabled
    THEN g
    ELSE set_active_tasks(set_queue_depth(g, Len(queue)), load)

\* std::queue::front / pop
queue_front(q) == Head(q)
queue_pop(q) == Tail(q)

\* PoolActorState::process_pending: the state after the while loop
RECURSIVE process_pending(_, _, _, _)
process_pending(load, queue, sent, g) ==
    IF load < max_concurrency /\ queue # <<>>
    THEN process_pending(load + 1, queue_pop(queue),
                         Append(sent, queue_front(queue).id),
                         update_queue_metrics(g, queue_pop(queue), load + 1))
    ELSE [load |-> load, queue |-> queue, sent |-> sent, gauges |-> g]

\* mutant: the capacity test admits one request too many
at_capacity_off_by_one == current_load > max_concurrency

\* mutant: the capacity test is gated on the queue-management flag
at_capacity_flag_gated ==
    is_queue_management_enabled /\ current_load >= max_concurrency

\* the capacity test of the execute handler
at_capacity == current_load >= max_concurrency

\* the queue-full test of the execute handler, for a queue of the given
\* depth: the flag is read at the time of the test, max_queue_size_ is the
\* value the constructor computed
queue_full_at(depth) ==
    /\ is_queue_management_enabled
    /\ max_queue_size > 0
    /\ depth >= max_queue_size

queue_full == queue_full_at(Len(pending_requests))

\* what the "Queue the request" branch leaves in pending_requests_:
\* the push is commented out in the source
enqueue(queue, request) == queue

\* PoolActorState::make_behavior, handler (execute_atom, StepRequest)
PoolExecute(request) ==
    /\ turns < MaxTurns
    /\ turns' = turns + 1
    /\ submitted' = Append(submitted, request)
    /\ IF at_capacity
       THEN IF queue_full
            THEN /\ pool_log' = Append(pool_log,
                        [level |-> "WARN", id |-> request.id,
                         reason |-> "queue_full"])
                 /\ gauges' = update_queue_metrics(gauges, pending_requests,
                                                   current_load)
                 /\ UNCHANGED <<current_load, pending_requests, dispatched>>
            ELSE /\ pending_requests' = enqueue(pending_requests, request)
                 /\ gauges' = update_queue_metrics(gauges, pending_requests',
                                                   current_load)
                 /\ UNCHANGED <<current_load, pool_log, dispatched>>
       ELSE LET p == process_pending(current_load + 1, pending_requests,
                                     Append(dispatched, request.id), gauges)
            IN /\ current_load' = p.load
               /\ pending_requests' = p.queue
               /\ dispatched' = p.sent
               /\ gauges' = update_queue_metrics(p.gauges, p.queue, p.load)
               /\ pool_log' = Append(pool_log,
                        [level |-> "INFO", id |-> request.id,
                         reason |-> "started"])
    /\ UNCHANGED <<env, max_concurrency, max_queue_size, acks, results,
                   cancelled, completed, execVars, ingressVars,
                   workerVars, callVars, actorPoolVars, healthVars>>

Submit ==
    \E inputs \in PoolInputs :
        PoolExecute([id |-> Len(submitted) + 1, inputs |-> inputs])

\* the filter of the cancel handler
RECURSIVE cancel_filter(_, _)
cancel_filter(queue, step_id) ==
    IF queue = <<>> THEN <<>>
    ELSE LET r == Head(queue)
         IN IF "step_id" \in DOMAIN r.inputs /\ r.inputs["step_id"] # step_id
            THEN <<r>> \o cancel_filter(Tail(queue), step_id)
            ELSE cancel_filter(Tail(queue), step_id)

\* PoolActorState::make_behavior, handler (cancel_atom, step_id)
PoolCancel(step_id) ==
    /\ turns < MaxTurns
    /\ turns' = turns + 1
    /\ pending_requests' = cancel_filter(pending_requests, step_id)
    /\ cancelled' = cancelled \cup
            ({pending_requests[i].id : i \in 1..Len(pending_requests)}
             \ {pending_requests'[i].id : i \in 1..Len(pending_requests')})
    /\ pool_log' = Append(pool_log,
            [level |-> "INFO", id |-> 0, reason |-> "cancel"])
    /\ UNCHANGED <<env, max_concurrency, max_queue_size, current_load, gauges,
                   acks, results, submitted, dispatched, completed,
                   execVars, ingressVars, workerVars, callVars, actorPoolVars, healthVars>>

Cancel == \E s \in StepIds : PoolCancel(s)

\* PoolActorState::make_behavior, handler (metrics_atom)
PoolMetrics ==
    /\ turns < MaxTurns
    /\ turns' = turns + 1
    /\ gauges' = IF is_observability_metrics_enabled
                 THEN update_queue_metrics(gauges, pending_requests,
                                           current_load)
                 ELSE gauges
    /\ UNCHANGED <<env, max_concurrency, max_queue_size, current_load,
                   pending_requests, pool_log, acks, results, submitted,
                   dispatched, cancelled, completed, execVars,
                   ingressVars,
                   workerVars, callVars, actorPoolVars, healthVars>>

\* ExecutorActorState::make_behavior, handler (execute_atom, StepRequest),
\* for a request that holds an executor slot: the handler returns after
\* execute_with_retry and record_step_metrics and sends no message; the
\* pool's behavior has no handler for the end of a step
ExecutorFinished ==
    \E k \in 1..Len(dispatched) :
        /\ dispatched[k] \notin completed
        /\ completed' = completed \cup {dispatched[k]}
        /\ UNCHANGED <<env, max_concurrency, max_queue_size, current_load,
                       pending_requests, gauges, pool_log, acks, results,
                       submitted, dispatched, cancelled, turns, execVars,
                       ingressVars, workerVars, callVars, actorPoolVars, healthVars>>

\* the environment of the process changes between two mailbox turns
PoolEnvNames == {"CP2_QUEUE_MANAGEMENT_ENABLED",
                 "CP2_OBSERVABILITY_METRICS_ENABLED"}

SetEnv ==
    \E n \in PoolEnvNames, v \in EnvValues :
        /\ env[n] # v
        /\ env' = [env EXCEPT ![n] = v]
        /\ UNCHANGED <<poolVars, execVars, ingressVars,
                   workerVars, callVars, actorPoolVars, healthVars>>

-----------------------------------------------------------------------------
(* StepResult and its factories (core.hpp) *)

\* enum class ErrorCode
ErrorCodes ==
    {"none", "invalid_input", "missing_required_field", "invalid_format",
     "execution_failed", "resource_unavailable", "permission_denied",
     "quota_exceeded", "network_error", "connection_timeout", "http_error",
     "internal_error", "system_overload", "cancelled_by_user",
     "cancelled_by_timeout"}

\* static_cast<int>(ErrorCode)
ErrorCodeValue(code) ==
    CASE code = "none" -> 0
      [] code = "invalid_input" -> 1001
      [] code = "missing_required_field" -> 1002
      [] code = "invalid_format" -> 1003
      [] code = "execution_failed" -> 2001
      [] code = "resource_unavailable" -> 2002
      [] code = "permission_denied" -> 2003
      [] code = "quota_exceeded" -> 2004
      [] code = "network_error" -> 3001
      [] code = "connection_timeout" -> 3002
      [] code = "http_error" -> 3003
      [] code = "internal_error" -> 4001
      [] code = "system_overload" -> 4002
      [] code = "cancelled_by_user" -> 5001
      [] code = "cancelled_by_timeout" -> 5002

\* std::to_string on the values of ErrorCode
error_code_str(n) ==
    CASE n = 0 -> "0"
      [] n = 1001 -> "1001" [] n = 1002 -> "1002" [] n = 1003 -> "1003"
      [] n = 2001 -> "2001" [] n = 2002 -> "2002" [] n = 2003 -> "2003"
      [] n = 2004 -> "2004"
      [] n = 3001 -> "3001" [] n = 3002 -> "3002" [] n = 3003 -> "3003"
      [] n = 4001 -> "4001" [] n = 4002 -> "4002"
      [] n = 5001 -> "5001" [] n = 5002 -> "5002"

\* the error_code labels worker_step_errors_total can carry
ErrorLabels == {error_code_str(ErrorCodeValue(c)) : c \in ErrorCodes}

EmptyMeta == [trace_id |-> "", run_id |-> "", flow_id |-> "", step_id |-> "",
              tenant_id |-> ""]

\* StepResult's member initialisers
DefaultStepResult ==
    [status |-> "ok", error_code |-> "none", outputs |-> EmptyMap,
     error_message |-> "", metadata |-> EmptyMeta, latency_ms |-> 0,
     retries_used |-> 0]

success(meta, outputs, latency_ms) ==
    [DefaultStepResult EXCEPT !.status = "ok", !.error_code = "none",
                              !.metadata = meta, !.outputs = outputs,
                              !.latency_ms = latency_ms]

error_result(code, message, meta, latency_ms) ==
    [DefaultStepResult EXCEPT !.status = "error", !.error_code = code,
                              !.error_message = message, !.metadata = meta,
                              !.latency_ms = latency_ms]

timeout_result(meta, latency_ms) ==
    [DefaultStepResult EXCEPT !.status = "timeout",
                              !.error_code = "cancelled_by_timeout",
                              !.metadata = meta, !.latency_ms = latency_ms]

cancelled_result(meta, latency_ms) ==
    [DefaultStepResult EXCEPT !.status = "cancelled",
                              !.error_code = "cancelled_by_user",
                              !.metadata = meta, !.latency_ms = latency_ms]

\* BlockExecutor::metadata_from_context
metadata_from_context(ctx) ==
    [trace_id |-> ctx.trace_id, run_id |-> ctx.run_id, flow_id |-> ctx.flow_id,
     step_id |-> ctx.step_id, tenant_id |-> ctx.tenant_id]

\* ResultConverter::validate_result
validate_result(result) ==
    IF result.status = "ok" /\ result.error_code # "none" THEN FALSE
    ELSE IF result.status = "error" /\ result.error_code = "none" THEN FALSE
    ELSE IF result.latency_ms < 0 THEN FALSE
    ELSE TRUE

-----------------------------------------------------------------------------
(* RetryPolicy (retry_policy.hpp) *)

BaseDelayMs == 100
MaxDelayMs == 5000

\* int64_t values as four 16-bit limbs, least significant first: the
\* product base_delay_ms * (1LL << attempt) does not fit the integers of
\* the model checker, so it is computed limb by limb, modulo 2^64
LimbBase == 65536
ToInt64(n) == <<n % LimbBase, n \div LimbBase, 0, 0>>

RECURSIVE Pow2(_)
Pow2(k) == IF k = 0 THEN 1 ELSE 2 * Pow2(k - 1)

\* base * (1LL << n) for 0 <= n < 64, the product wrapping in 64 bits:
\* whole limbs move up by n \div 16, the rest is a multiplication by
\* 2^(n % 16) with carries, and what leaves the top limb is lost
ShiftLeft(x, n) ==
    LET m == Pow2(n % 16)
        k == n \div 16
        limb(i) == IF i - k >= 1 THEN x[i - k] ELSE 0
        p1 == limb(1) * m
        p2 == limb(2) * m + p1 \div LimbBase
        p3 == limb(3) * m + p2 \div LimbBase
        p4 == limb(4) * m + p3 \div LimbBase
    IN <<p1 % LimbBase, p2 % LimbBase, p3 % LimbBase, p4 % LimbBase>>

IsNegative64(x) == x[4] >= LimbBase \div 2

\* the int64_t as an integer of the model: exact below 2^30, otherwise
\* -2^30 for a negative value and 2^30 for a larger one
Saturated == 1073741824
FromInt64(x) ==
    IF IsNegative64(x) THEN -Saturated
    ELSE IF x[4] = 0 /\ x[3] = 0 /\ x[2] < LimbBase \div 4
         THEN x[1] + LimbBase * x[2]
    ELSE Saturated

Min(a, b) == IF a < b THEN a ELSE b

\* what 1LL << attempt does to base_delay_ms: a shift count of 64 or more
\* is undefined; the processor either uses the count modulo 64 or yields 0
ShiftedBase(attempt_) ==
    IF attempt_ < 64
    THEN {ShiftLeft(ToInt64(BaseDelayMs), attempt_)}
    ELSE {ShiftLeft(ToInt64(BaseDelayMs), attempt_ % 64), ToInt64(0)}

\* mutant: the exponent starts at one instead of zero
calculate_backoff_delay_from_one(attempt_) ==
    IF ~is_advanced_retry_enabled
    THEN {100 * (attempt_ + 1)}
    ELSE {Min(FromInt64(delay), MaxDelayMs) :
             delay \in ShiftedBase(attempt_ + 1)}

\* the values calculate_backoff_delay(attempt) can return
calculate_backoff_delay(attempt_) ==
    IF ~is_advanced_retry_enabled
    THEN {100 * (attempt_ + 1)}
    ELSE {Min(FromInt64(delay), MaxDelayMs) :
             delay \in ShiftedBase(attempt_)}

is_retryable(error_code, http_status) ==
    IF ~is_advanced_retry_enabled THEN TRUE
    ELSE IF http_status > 0 /\ http_status >= 400 /\ http_status < 500
         THEN FALSE
    ELSE IF http_status > 0 /\ http_status >= 500 THEN TRUE
    ELSE CASE error_code \in {"network_error", "connection_timeout"} -> TRUE
           [] error_code \in {"invalid_input", "missing_required_field",
                              "invalid_format"} -> FALSE
           [] error_code = "permission_denied" -> FALSE
           [] error_code \in {"execution_failed", "resource_unavailable"} -> TRUE
           [] error_code \in {"internal_error", "system_overload"} -> TRUE
           [] error_code \in {"cancelled_by_user", "cancelled_by_timeout"}
                -> FALSE
           [] OTHER -> TRUE

\* the values is_budget_exhausted can return
is_budget_exhausted(total_elapsed_ms, attempt_, total_timeout_ms) ==
    IF ~is_advanced_retry_enabled THEN {FALSE}
    ELSE IF total_elapsed_ms >= total_timeout_ms THEN {TRUE}
    ELSE {total_elapsed_ms + next_backoff >= total_timeout_ms :
             next_backoff \in calculate_backoff_delay(attempt_)}

-----------------------------------------------------------------------------
(* Block handlers: what one execute(req) call can yield and how long it    *)
(* takes.  A yield is [ok, value, response, d]: ok is has_value() of the   *)
(* caf::expected, value the StepResult, d the wall-clock time in ms;        *)
(* thrown tells that the call ended in an exception instead of returning.  *)

HttpStatuses == {200, 404, 500}
ResponseTimes == {50}

\* std::to_string / std::stoi on the status codes the server can send
to_string(n) ==
    CASE n = 200 -> "200" [] n = 404 -> "404" [] n = 500 -> "500"
      [] OTHER -> "0"
stoi(str) ==
    CASE str = "200" -> 200 [] str = "404" -> 404 [] str = "500" -> 500
      [] OTHER -> 0

validate_required_inputs(request, required_inputs) ==
    \A k \in required_inputs : k \in DOMAIN request.inputs

get_input_or_default(request, key, default_value) ==
    IF key \in DOMAIN request.inputs THEN request.inputs[key]
    ELSE default_value

\* nlohmann::json::parse succeeds on the headers texts used here
json_parses(text) == text \in {"{}"}

Yield(response, d, value) ==
    [ok |-> TRUE, thrown |-> FALSE, value |-> value, response |-> response,
     d |-> d]
RawFailure(d) ==
    [ok |-> FALSE, thrown |-> FALSE, value |-> DefaultStepResult,
     response |-> "raw", d |-> d]
\* an exception that leaves execute_impl
Escapes(d) ==
    [ok |-> FALSE, thrown |-> TRUE, value |-> DefaultStepResult,
     response |-> "throw", d |-> d]

\* the CURLOPT_TIMEOUT_MS that perform_http_request sets
http_timeout_ms(timeout_ms) ==
    IF is_complete_timeout_enabled
    THEN IF timeout_ms - 5000 > 0 THEN timeout_ms - 5000 ELSE timeout_ms
    ELSE timeout_ms

\* std::string::find(sub) != npos on the texts that occur: the words of
\* each text that the handlers look for, case kept
Fragments(msg) ==
    CASE msg = "Timeout was reached" -> {"Timeout"}
      [] msg = "Permission denied" -> {"Permission"}
      [] msg = "File not found: " -> {"not found"}
      [] msg = "FS write operation timeout: exceeded " -> {"timeout"}
      [] msg = "FS read operation timeout: exceeded " -> {"timeout"}
      [] msg = "/etc/permissions" -> {"permission"}
      [] msg = "/srv/not found" -> {"not found"}
      [] OTHER -> {}
contains(msg, sub) == sub \in Fragments(msg)

\* a + b + ... on std::string
RECURSIVE Concat(_)
Concat(pieces) ==
    IF pieces = <<>> THEN "" ELSE Head(pieces) \o Concat(Tail(pieces))

\* HttpBlockExecutor::execute_impl
HttpExecute(request, ctx) ==
    LET metadata == metadata_from_context(ctx)
        limit == http_timeout_ms(request.timeout_ms)
        failed(msg, d) ==
            Yield("exception", d,
                  error_result(IF contains(msg, "timeout")
                                  \/ contains(msg, "TIMEOUT")
                               THEN "connection_timeout" ELSE "network_error",
                               msg, metadata, d))
    IN IF ~validate_required_inputs(request, {"url", "method"})
       THEN {Yield("invalid", 0,
                   error_result("missing_required_field",
                                "Missing required inputs: url, method",
                                metadata, 0))}
       ELSE IF ~json_parses(get_input_or_default(request, "headers", "{}"))
       THEN {Yield("invalid", 0,
                   error_result("invalid_format", "Invalid headers JSON",
                                metadata, 0))}
       ELSE {IF code >= 200 /\ code < 300
             THEN Yield(to_string(code), d,
                        success(metadata,
                                [status_code |-> to_string(code)], d))
             ELSE Yield(to_string(code), d,
                        error_result("http_error",
                                     "HTTP request failed with status",
                                     metadata, d))
             : code \in HttpStatuses,
               d \in {t \in ResponseTimes : limit = 0 \/ t < limit}}
            \cup {failed("Couldn't connect to server", d) :
                     d \in {t \in ResponseTimes : limit = 0 \/ t < limit}}
            \cup (IF limit > 0
                  THEN {failed("Timeout was reached", limit)} ELSE {})

\* TimeoutEnforcement::get_fs_timeout_ms
get_fs_timeout_ms(operation_type) ==
    IF ~is_complete_timeout_enabled THEN 0
    ELSE IF operation_type \in {"read", "fs.blob_get"} THEN 5000
    ELSE IF operation_type \in {"write", "fs.blob_put"} THEN 10000
    ELSE IF operation_type = "delete" THEN 3000
    ELSE 5000

\* the paths the FS requests name
Paths == {"/tmp/beamline/f", "/etc/passwd", "/etc/permissions",
          "/srv/not found"}

\* path.find(prefix) == 0 for one of allowed_prefixes
allowed_prefixes == {"/tmp/beamline/", "/var/lib/beamline/data/", "./data/"}
PathPrefixes(path) ==
    CASE path = "/tmp/beamline/f" -> {"/tmp/", "/tmp/beamline/"}
      [] path = "/etc/passwd" -> {"/etc/"}
      [] path = "/etc/permissions" -> {"/etc/"}
      [] path = "/srv/not found" -> {"/srv/"}
      [] OTHER -> {}
is_path_allowed(path) == PathPrefixes(path) \cap allowed_prefixes # {}

\* the catch block of the two FS handlers: the exception text, a sequence of
\* the pieces it was put together from, becomes an error whose code depends
\* on the words found in the text
fs_error(response, pieces, marks, code, metadata, d) ==
    Yield(response, d,
          error_result(IF \E m \in marks : \E i \in 1..Len(pieces) :
                              contains(pieces[i], m)
                       THEN code ELSE "execution_failed",
                       Concat(pieces), metadata, d))

\* FsBlockExecutor::execute_impl (fs.blob_put)
FsPutExecute(request, ctx) ==
    LET metadata == metadata_from_context(ctx)
        t0 == get_fs_timeout_ms("write")
        fs_timeout_ms == IF t0 = 0 THEN request.timeout_ms ELSE t0
        permission == {"permission", "Permission"}
        path == request.inputs["path"]
        failed(response, pieces, d) ==
            fs_error(response, <<"File write error: ">> \o pieces, permission,
                     "permission_denied", metadata, d)
    IN IF ~validate_required_inputs(request, {"path", "content"})
       THEN {Yield("invalid", 0,
                   error_result("missing_required_field",
                                "Missing required inputs: path, content",
                                metadata, 0))}
       ELSE IF ~is_path_allowed(path)
       THEN {failed("refused", <<"Path not allowed: ", path>>, 0)}
       ELSE {Yield("written", d, success(metadata, [path |-> path], d))
                : d \in ResponseTimes}
            \cup {failed("exception", pieces, d) :
                     pieces \in {<<"File already exists and overwrite is false: ",
                                   path>>,
                                 <<"Permission denied">>,
                                 <<"Failed to open file for writing: ", path>>},
                     d \in ResponseTimes}
            \cup (IF is_complete_timeout_enabled /\ fs_timeout_ms > 0
                  THEN {failed("fs_timeout",
                               <<"FS write operation timeout: exceeded ",
                                 "10000", "ms">>, fs_timeout_ms)}
                  ELSE {})

\* FsGetBlockExecutor::execute_impl (fs.blob_get)
FsGetExecute(request, ctx) ==
    LET metadata == metadata_from_context(ctx)
        t0 == get_fs_timeout_ms("read")
        fs_timeout_ms == IF t0 = 0 THEN request.timeout_ms ELSE t0
        missing == {"not found", "Not found"}
        path == request.inputs["path"]
        failed(response, pieces, d) ==
            fs_error(response, <<"File read error: ">> \o pieces, missing,
                     "resource_unavailable", metadata, d)
    IN IF ~validate_required_inputs(request, {"path"})
       THEN {Yield("invalid", 0,
                   error_result("missing_required_field",
                                "Missing required input: path", metadata, 0))}
       ELSE IF ~is_path_allowed(path)
       THEN {failed("refused", <<"Path not allowed: ", path>>, 0)}
       ELSE {Yield("read", d, success(metadata, [path |-> path], d))
                : d \in ResponseTimes}
            \cup {failed("exception", pieces, d) :
                     pieces \in {<<"File not found: ", path>>,
                                 <<"Failed to open file for reading: ", path>>},
                     d \in ResponseTimes}
            \cup (IF is_complete_timeout_enabled /\ fs_timeout_ms > 0
                  THEN {failed("fs_timeout",
                               <<"FS read operation timeout: exceeded ",
                                 "5000", "ms">>, fs_timeout_ms)}
                  ELSE {})

\* SqlBlockExecutor::execute_impl
SqlExecute(request, ctx) ==
    LET metadata == metadata_from_context(ctx)
    IN IF ~validate_required_inputs(request, {"query"})
       THEN {Yield("invalid", 0,
                   error_result("missing_required_field",
                                "Missing required input: query", metadata, 0))}
       ELSE {Yield("rows", d, success(metadata, [row_count |-> "1"], d))
                : d \in ResponseTimes}
            \cup {Yield("exception", d,
                        error_result("execution_failed",
                                     "SQL query execution failed",
                                     metadata, d)) : d \in ResponseTimes}

\* std::stoll on the texts of timeout_seconds that occur; a text that
\* does not start with a number makes it throw std::invalid_argument
stoll_throws(str) == str \notin {"0", "3600"}
stoll(str) == CASE str = "0" -> 0 [] str = "3600" -> 3600 [] OTHER -> 0

\* HumanBlockExecutor::execute_impl: std::stoll runs in front of the try
HumanExecute(request, ctx) ==
    LET metadata == metadata_from_context(ctx)
        text == get_input_or_default(request, "timeout_seconds", "3600")
        timeout_seconds == stoll(text)
    IN IF ~validate_required_inputs(request, {"approval_type", "description"})
       THEN {Yield("invalid", 0,
                   error_result("missing_required_field",
                                "Missing required inputs", metadata, 0))}
       ELSE IF stoll_throws(text)
       THEN {Escapes(0)}
       ELSE IF ctx.sandbox
       THEN {Yield("approved", 0,
                   success(metadata, [decision |-> "approved"], 0))}
       ELSE IF 100 > timeout_seconds * 1000
       THEN {Yield("timeout", 100, timeout_result(metadata, 100))}
       ELSE {Yield("pending", 100,
                   success(metadata, [status |-> "pending"], 100))}

\* BlockExecutor::execute of any other implementation of the interface: a
\* factory-built StepResult, or no value at all (a caf::error)
OtherExecute(request, ctx) ==
    LET metadata == metadata_from_context(ctx)
    IN {RawFailure(d) : d \in ResponseTimes}
       \cup {Yield("ok", d, success(metadata, EmptyMap, d)) :
                d \in ResponseTimes}
       \cup {Yield("error", d,
                   error_result("execution_failed", "mock error", metadata, d))
                : d \in ResponseTimes}

HandlerTypes == {"http.request", "fs.blob_put", "fs.blob_get", "sql.query",
                 "human.approval", "test.block"}

\* executor_->execute(req): the stored context_ is the one used
execute(request, ctx) ==
    CASE request.type = "http.request" -> HttpExecute(request, ctx)
      [] request.type = "fs.blob_put" -> FsPutExecute(request, ctx)
      [] request.type = "fs.blob_get" -> FsGetExecute(request, ctx)
      [] request.type = "sql.query" -> SqlExecute(request, ctx)
      [] request.type = "human.approval" -> HumanExecute(request, ctx)
      [] OTHER -> OtherExecute(request, ctx)

-----------------------------------------------------------------------------
(* Worker actor (routing of requests to the pools) and Scheduler *)

ResourceClasses == {"cpu", "gpu", "io"}

\* WorkerActorState::WorkerActorState
WorkerConstructed ==
    /\ worker_out = <<>>
    /\ scheduled = <<>>

\* the step types and resources maps of the requests sent to the worker
WorkerTypes == {"http.request", "fs.blob_put", "sql.query", "ai.generate",
                "media.transcode"}
WorkerResources == {EmptyMap} \cup {[class |-> c] : c \in ResourceClasses}
WorkerRequests == [type : WorkerTypes, resources : WorkerResources]

\* request.type.find(prefix) == 0, on the step types above
TypePrefixes(type) ==
    CASE type = "http.request" -> {"http."}
      [] type = "fs.blob_put" -> {"fs."}
      [] type = "sql.query" -> {"sql."}
      [] type = "ai.generate" -> {"ai."}
      [] type = "media.transcode" -> {"media."}
      [] OTHER -> {}
starts_with(type, prefix) == prefix \in TypePrefixes(type)

\* the pool the worker's execute handler picks
worker_pool_for(request) ==
    IF "class" \in DOMAIN request.resources
    THEN IF request.resources["class"] = "gpu" THEN "gpu"
         ELSE IF request.resources["class"] = "io" THEN "io"
         ELSE "cpu"
    ELSE "cpu"

\* Scheduler::determine_resource_class
determine_resource_class(request) ==
    IF "class" \in DOMAIN request.resources
       /\ request.resources["class"] \in {"gpu", "io"}
    THEN request.resources["class"]
    ELSE IF starts_with(request.type, "http.")
            \/ starts_with(request.type, "fs.")
         THEN "io"
    ELSE IF starts_with(request.type, "ai.")
            \/ starts_with(request.type, "media.")
         THEN "gpu"
    ELSE "cpu"

\* WorkerActorState::make_behavior, handler (execute_atom, StepRequest)
WorkerExecute(request) ==
    /\ Len(worker_out) + Len(scheduled) < MaxWorkerOut
    /\ worker_out' = Append(worker_out,
            [kind |-> "send", to |-> worker_pool_for(request),
             atom |-> "execute", payload |-> request])
    /\ UNCHANGED <<env, poolVars, execVars, ingressVars, callVars, actorPoolVars, healthVars, scheduled>>

WorkerSubmit == \E r \in WorkerRequests : WorkerExecute(r)

\* WorkerActorState::make_behavior, handler (cancel_atom, step_id): the
\* cancel is sent to every pool
WorkerCancel ==
    /\ Len(worker_out) + Len(scheduled) < MaxWorkerOut
    /\ \E step_id \in StepIds :
          worker_out' = worker_out \o
              [i \in 1..3 |->
                  [kind |-> "send", to |-> <<"cpu", "gpu", "io">>[i],
                   atom |-> "cancel", payload |-> step_id]]
    /\ UNCHANGED <<env, poolVars, execVars, ingressVars, callVars, actorPoolVars, healthVars, scheduled>>

\* WorkerActorState::make_behavior, handlers (metrics_atom) and
\* (context_atom, BlockContext): a log record each
WorkerLog ==
    /\ Len(worker_out) + Len(scheduled) < MaxWorkerOut
    /\ \E m \in {"Metrics requested", "Context updated"} :
          worker_out' = Append(worker_out,
              [kind |-> "log", to |-> "", atom |-> "", payload |-> m])
    /\ UNCHANGED <<env, poolVars, execVars, ingressVars, callVars, actorPoolVars, healthVars, scheduled>>

\* Scheduler::schedule_step: tenant_usage_ is never written, so the quota
\* check passes and the pool of the determined class is returned
ScheduleStep ==
    /\ Len(worker_out) + Len(scheduled) < MaxWorkerOut
    /\ \E r \in WorkerRequests :
          scheduled' = Append(scheduled,
              [request |-> r, pool |-> determine_resource_class(r)])
    /\ UNCHANGED <<env, poolVars, execVars, ingressVars, callVars, actorPoolVars, healthVars, worker_out>>

-----------------------------------------------------------------------------
(* Ingress actor (ingress_actor.cpp) *)

\* IngressActorState::IngressActorState
IngressConstructed ==
    /\ ingress_stdout = <<>>
    /\ forwarded = <<>>
    /\ ingress_turns = 0

\* the assignments that arrive as json_request: each field right or wrong
Assignments ==
    [version : {"1", "2"}, assignment_id : {"", "a1"},
     request_id : {"", "r1"}, tenant_id : {"", "t1"},
     job_type : {"http.request", "bogus"}]

\* IngressActorState::make_behavior, handler (atom): nothing for "tick"
IngressTick ==
    /\ ingress_turns < MaxIngressMsgs
    /\ ingress_turns' = ingress_turns + 1
    /\ UNCHANGED <<env, poolVars, execVars, workerVars, callVars, actorPoolVars, healthVars,
                   ingress_stdout, forwarded>>

\* IngressActorState::make_behavior, handler (json_request): the request is
\* written to std::cout; it is not parsed and worker_ is not used
IngressReceive(json_request) ==
    /\ ingress_turns < MaxIngressMsgs
    /\ ingress_turns' = ingress_turns + 1
    /\ ingress_stdout' = Append(ingress_stdout, json_request)
    /\ UNCHANGED <<env, poolVars, execVars, workerVars, callVars, actorPoolVars, healthVars,
                   forwarded>>

Receive == \E a \in Assignments : IngressReceive(a)

-----------------------------------------------------------------------------
(* Observability: the health endpoint (observability.cpp).  The caller of  *)
(* start and stop, the server thread and the clients take steps in turn.   *)

ListenFd == 3
NoClient == [request |-> "<none>", state |-> "<none>"]
HealthRequests == {"GET /_health", "GET /other"}

\* members of Observability after construction: no endpoint yet
HealthConstructed ==
    /\ health_server_running = FALSE
    /\ health_server_socket = -1
    /\ socket_open = FALSE
    /\ server_pc = "none"
    /\ stop_pc = "idle"
    /\ accept_woken = FALSE
    /\ backlog = <<>>
    /\ client = NoClient
    /\ health_sent = <<>>
    /\ health_log = <<>>

\* Observability::start_health_endpoint: socket, bind and listen succeed and
\* the server thread is started, or one of them fails and only a log is left
StartHealth ==
    /\ stop_pc = "idle"
    /\ ~health_server_running
    /\ health_log = <<>>
    /\ \/ /\ health_server_socket' = ListenFd
          /\ socket_open' = TRUE
          /\ health_server_running' = TRUE
          /\ server_pc' = "loop"
          /\ health_log' = Append(health_log, "Health endpoint started")
       \/ /\ health_log' = Append(health_log, "Failed to bind")
          /\ UNCHANGED <<health_server_socket, socket_open,
                         health_server_running, server_pc>>
    /\ UNCHANGED <<env, poolVars, execVars, ingressVars, workerVars, callVars, actorPoolVars,
                   stop_pc, accept_woken, backlog, client, health_sent>>

\* a client connects to the listening socket
ClientConnect ==
    /\ socket_open
    /\ Len(backlog) + Len(health_sent) + (IF client = NoClient THEN 0 ELSE 1)
          < MaxClients
    /\ \E r \in HealthRequests :
          backlog' = Append(backlog, [request |-> r, state |-> "connected"])
    /\ UNCHANGED <<env, poolVars, execVars, ingressVars, workerVars, callVars, actorPoolVars,
                   health_server_running, health_server_socket, socket_open,
                   server_pc, stop_pc, accept_woken, client, health_sent,
                   health_log>>

\* the accepted client sends its request, or closes without sending
ClientSpeak ==
    /\ client # NoClient
    /\ client.state = "connected"
    /\ \E st \in {"sent", "closed"} : client' = [client EXCEPT !.state = st]
    /\ UNCHANGED <<env, poolVars, execVars, ingressVars, workerVars, callVars, actorPoolVars,
                   health_server_running, health_server_socket, socket_open,
                   server_pc, stop_pc, accept_woken, backlog, health_sent,
                   health_log>>

\* health_server_loop: while (health_server_running_)
ServerLoop ==
    /\ server_pc = "loop"
    /\ server_pc' = IF health_server_running THEN "accept" ELSE "exited"
    /\ UNCHANGED <<env, poolVars, execVars, ingressVars, workerVars, callVars, actorPoolVars,
                   health_server_running, health_server_socket, socket_open,
                   stop_pc, accept_woken, backlog, client, health_sent,
                   health_log>>

\* what the loop does when accept() has returned -1
accept_failed == IF health_server_running THEN "loop" ELSE "exited"

\* health_server_loop: the call of accept(socket_fd): on a closed descriptor
\* it fails at once, with a waiting connection it returns it, otherwise the
\* thread blocks
ServerAccept ==
    /\ server_pc = "accept"
    /\ IF ~socket_open
       THEN /\ server_pc' = accept_failed
            /\ UNCHANGED <<backlog, client>>
       ELSE IF backlog # <<>>
       THEN /\ client' = Head(backlog)
            /\ backlog' = Tail(backlog)
            /\ server_pc' = "recv"
       ELSE /\ server_pc' = "accepting"
            /\ UNCHANGED <<backlog, client>>
    /\ UNCHANGED <<env, poolVars, execVars, ingressVars, workerVars, callVars, actorPoolVars,
                   health_server_running, health_server_socket, socket_open,
                   stop_pc, accept_woken, health_sent, health_log>>

\* health_server_loop: the thread blocked in accept() is woken by a
\* connection, or by the close() of the socket where the system does that
ServerWake ==
    /\ server_pc = "accepting"
    /\ \/ /\ backlog # <<>>
          /\ client' = Head(backlog)
          /\ backlog' = Tail(backlog)
          /\ server_pc' = "recv"
       \/ /\ accept_woken
          /\ server_pc' = accept_failed
          /\ UNCHANGED <<backlog, client>>
    /\ UNCHANGED <<env, poolVars, execVars, ingressVars, workerVars, callVars, actorPoolVars,
                   health_server_running, health_server_socket, socket_open,
                   stop_pc, accept_woken, health_sent, health_log>>

\* health_server_loop: recv(client_fd) returns once the client has sent its
\* request or closed; the response is sent and the connection closed
ServerRecv ==
    /\ server_pc = "recv"
    /\ client.state # "connected"
    /\ health_sent' =
          Append(health_sent,
                 IF client.state = "closed" THEN "none"
                 ELSE IF client.request = "GET /_health" THEN "200 OK"
                 ELSE "404 Not Found")
    /\ client' = NoClient
    /\ server_pc' = "loop"
    /\ UNCHANGED <<env, poolVars, execVars, ingressVars, workerVars, callVars, actorPoolVars,
                   health_server_running, health_server_socket, socket_open,
                   stop_pc, accept_woken, backlog, health_log>>

\* Observability::stop_health_endpoint, up to health_server_running_ = false
StopBegin ==
    /\ stop_pc = "idle"
    /\ health_log # <<>>
    /\ IF ~health_server_running
       THEN /\ stop_pc' = "returned"
            /\ UNCHANGED health_server_running
       ELSE /\ health_server_running' = FALSE
            /\ stop_pc' = "close"
    /\ UNCHANGED <<env, poolVars, execVars, ingressVars, workerVars, callVars, actorPoolVars,
                   health_server_socket, socket_open, server_pc, accept_woken,
                   backlog, client, health_sent, health_log>>

\* stop_health_endpoint: close(health_server_socket_).  Whether the close
\* makes an accept() that another thread is blocked in return is left open
\* by POSIX: both outcomes occur
StopClose ==
    /\ stop_pc = "close"
    /\ IF health_server_socket >= 0
       THEN /\ socket_open' = FALSE
            /\ health_server_socket' = -1
            /\ backlog' = <<>>
            /\ IF server_pc = "accepting"
               THEN accept_woken' \in BOOLEAN
               ELSE accept_woken' = accept_woken
       ELSE UNCHANGED <<socket_open, health_server_socket, backlog,
                        accept_woken>>
    /\ stop_pc' = "join"
    /\ UNCHANGED <<env, poolVars, execVars, ingressVars, workerVars, callVars, actorPoolVars,
                   health_server_running, server_pc, client, health_sent,
                   health_log>>

\* stop_health_endpoint: health_server_thread_.join() returns when the
\* thread has left health_server_loop
StopJoin ==
    /\ stop_pc = "join"
    /\ server_pc = "exited"
    /\ stop_pc' = "returned"
    /\ server_pc' = "joined"
    /\ health_log' = Append(health_log, "Health endpoint stopped")
    /\ UNCHANGED <<env, poolVars, execVars, ingressVars, workerVars, callVars, actorPoolVars,
                   health_server_running, health_server_socket, socket_open,
                   accept_woken, backlog, client, health_sent>>

ClientStep == ClientConnect \/ ClientSpeak
ServerStep == ServerLoop \/ ServerAccept \/ ServerWake \/ ServerRecv
StopStep == StopBegin \/ StopClose \/ StopJoin

-----------------------------------------------------------------------------
(* worker::ActorPool (runtime/actor_pools.hpp), the legacy thread pool: the *)
(* threads of threads_ in run(), and the thread that owns the pool, which   *)
(* submits tasks and then destroys the pool                                 *)

Threads == 1..MaxThreads
TaskIds == 1..MaxTasks
NoTask == 0
\* holders of mu_: nobody, one of the threads, or the owner
Unlocked == 0
Owner == MaxThreads + 1

\* no pool of this kind has been constructed
NoActorPool ==
    /\ concurrency_ = 0
    /\ mu_ = Unlocked
    /\ q_ = <<>>
    /\ stop_ = FALSE
    /\ thread_pc = [i \in Threads |-> "none"]
    /\ thread_task = [i \in Threads |-> NoTask]
    /\ owner_pc = "none"
    /\ joined = 0
    /\ tasks_submitted = 0
    /\ runs = [t \in TaskIds |-> 0]
    /\ swallowed = {}
    /\ queued_at_stop = 0

\* ActorPool::ActorPool(concurrency): every thread of threads_ is started
\* in run()
ActorPoolConstructed(concurrency) ==
    /\ concurrency_ = concurrency
    /\ mu_ = Unlocked
    /\ q_ = <<>>
    /\ stop_ = FALSE
    /\ thread_pc = [i \in Threads |->
                        IF i <= concurrency THEN "lock" ELSE "none"]
    /\ thread_task = [i \in Threads |-> NoTask]
    /\ owner_pc = "live"
    /\ joined = 0
    /\ tasks_submitted = 0
    /\ runs = [t \in TaskIds |-> 0]
    /\ swallowed = {}
    /\ queued_at_stop = 0

\* std::condition_variable::notify_one: one of the waiting threads, if any,
\* is woken
notify_one(pcs) ==
    LET waiting == {i \in Threads : pcs[i] = "waiting"}
    IN IF waiting = {} THEN {pcs}
       ELSE {[pcs EXCEPT ![i] = "woken"] : i \in waiting}

\* std::condition_variable::notify_all
notify_all(pcs) ==
    [i \in Threads |-> IF pcs[i] = "waiting" THEN "woken" ELSE pcs[i]]

\* the predicate of cv_.wait in run()
wait_predicate == stop_ \/ q_ # <<>>

\* mutant: run() returns as soon as stop_ is set
should_return_on_stop == stop_

\* the test that ends run()
should_return == stop_ /\ q_ = <<>>

\* run(): std::unique_lock lk(mu_), and the re-locking of mu_ by which
\* cv_.wait ends; both block while mu_ is held
RunLock(i) ==
    /\ thread_pc[i] \in {"lock", "woken"}
    /\ mu_ = Unlocked
    /\ mu_' = i
    /\ thread_pc' = [thread_pc EXCEPT ![i] = "locked"]
    /\ UNCHANGED <<env, poolVars, execVars, ingressVars, workerVars, callVars,
                   healthVars, concurrency_, q_, stop_, thread_task, owner_pc,
                   joined, tasks_submitted, runs, swallowed, queued_at_stop>>

\* run(), with mu_ held: cv_.wait releases mu_ and blocks while its
\* predicate is false; otherwise the thread returns, or takes the front
\* task; the end of the block releases mu_
RunLocked(i) ==
    /\ thread_pc[i] = "locked"
    /\ mu_ = i
    /\ mu_' = Unlocked
    /\ IF ~wait_predicate
       THEN /\ thread_pc' = [thread_pc EXCEPT ![i] = "waiting"]
            /\ UNCHANGED <<q_, thread_task>>
       ELSE IF should_return
       THEN /\ thread_pc' = [thread_pc EXCEPT ![i] = "exited"]
            /\ UNCHANGED <<q_, thread_task>>
       ELSE /\ thread_task' = [thread_task EXCEPT ![i] = queue_front(q_)]
            /\ q_' = queue_pop(q_)
            /\ thread_pc' = [thread_pc EXCEPT ![i] = "task"]
    /\ UNCHANGED <<env, poolVars, execVars, ingressVars, workerVars, callVars,
                   healthVars, concurrency_, stop_, owner_pc, joined,
                   tasks_submitted, runs, swallowed, queued_at_stop>>

\* run(): task() is called; it returns, or it throws and catch (...)
\* swallows the exception
RunTask(i) ==
    /\ thread_pc[i] = "task"
    /\ runs' = [runs EXCEPT ![thread_task[i]] = @ + 1]
    /\ \E throws \in BOOLEAN :
          swallowed' = IF throws THEN swallowed \cup {thread_task[i]}
                       ELSE swallowed
    /\ thread_task' = [thread_task EXCEPT ![i] = NoTask]
    /\ thread_pc' = [thread_pc EXCEPT ![i] = "lock"]
    /\ UNCHANGED <<env, poolVars, execVars, ingressVars, workerVars, callVars,
                   healthVars, concurrency_, mu_, q_, stop_, owner_pc, joined,
                   tasks_submitted, queued_at_stop>>

\* cv_.wait: a waiting thread may wake without a notification
SpuriousWake ==
    \E i \in Threads :
        /\ thread_pc[i] = "waiting"
        /\ thread_pc' = [thread_pc EXCEPT ![i] = "woken"]
        /\ UNCHANGED <<env, poolVars, execVars, ingressVars, workerVars,
                       callVars, healthVars, concurrency_, mu_, q_, stop_,
                       thread_task, owner_pc, joined, tasks_submitted, runs,
                       swallowed, queued_at_stop>>

\* submit(t): std::unique_lock lk(mu_)
SubmitLock ==
    /\ owner_pc = "live"
    /\ tasks_submitted < MaxTasks
    /\ mu_ = Unlocked
    /\ mu_' = Owner
    /\ owner_pc' = "push"
    /\ UNCHANGED <<env, poolVars, execVars, ingressVars, workerVars, callVars,
                   healthVars, concurrency_, q_, stop_, thread_pc, thread_task,
                   joined, tasks_submitted, runs, swallowed, queued_at_stop>>

\* submit(t): q_.push(t), and the end of the block releases mu_
SubmitPush ==
    /\ owner_pc = "push"
    /\ q_' = Append(q_, tasks_submitted + 1)
    /\ tasks_submitted' = tasks_submitted + 1
    /\ mu_' = Unlocked
    /\ owner_pc' = "notify_one"
    /\ UNCHANGED <<env, poolVars, execVars, ingressVars, workerVars, callVars,
                   healthVars, concurrency_, stop_, thread_pc, thread_task,
                   joined, runs, swallowed, queued_at_stop>>

\* submit(t): cv_.notify_one()
SubmitNotify ==
    /\ owner_pc = "notify_one"
    /\ thread_pc' \in notify_one(thread_pc)
    /\ owner_pc' = "live"
    /\ UNCHANGED <<env, poolVars, execVars, ingressVars, workerVars, callVars,
                   healthVars, concurrency_, mu_, q_, stop_, thread_task,
                   joined, tasks_submitted, runs, swallowed, queued_at_stop>>

\* ~ActorPool(): std::unique_lock lk(mu_)
DestructorLock ==
    /\ owner_pc = "live"
    /\ mu_ = Unlocked
    /\ mu_' = Owner
    /\ owner_pc' = "set_stop"
    /\ UNCHANGED <<env, poolVars, execVars, ingressVars, workerVars, callVars,
                   healthVars, concurrency_, q_, stop_, thread_pc, thread_task,
                   joined, tasks_submitted, runs, swallowed, queued_at_stop>>

\* ~ActorPool(): stop_ = true, and the end of the block releases mu_
DestructorSetStop ==
    /\ owner_pc = "set_stop"
    /\ stop_' = TRUE
    /\ queued_at_stop' = Len(q_)
    /\ mu_' = Unlocked
    /\ owner_pc' = "notify_all"
    /\ UNCHANGED <<env, poolVars, execVars, ingressVars, workerVars, callVars,
                   healthVars, concurrency_, q_, thread_pc, thread_task,
                   joined, tasks_submitted, runs, swallowed>>

\* ~ActorPool(): cv_.notify_all()
DestructorNotify ==
    /\ owner_pc = "notify_all"
    /\ thread_pc' = notify_all(thread_pc)
    /\ owner_pc' = "join"
    /\ UNCHANGED <<env, poolVars, execVars, ingressVars, workerVars, callVars,
                   healthVars, concurrency_, mu_, q_, stop_, thread_task,
                   joined, tasks_submitted, runs, swallowed, queued_at_stop>>

\* ~ActorPool(): for (auto &t : threads_) t.join(), one thread after the
\* other; join returns once the thread has left run()
DestructorJoin ==
    /\ owner_pc = "join"
    /\ joined < concurrency_
    /\ thread_pc[joined + 1] = "exited"
    /\ thread_pc' = [thread_pc EXCEPT ![joined + 1] = "joined"]
    /\ joined' = joined + 1
    /\ UNCHANGED <<env, poolVars, execVars, ingressVars, workerVars, callVars,
                   healthVars, concurrency_, mu_, q_, stop_, thread_task,
                   owner_pc, tasks_submitted, runs, swallowed, queued_at_stop>>

\* ~ActorPool(): the loop over threads_ is over and the destructor returns
DestructorReturn ==
    /\ owner_pc = "join"
    /\ joined = concurrency_
    /\ owner_pc' = "returned"
    /\ UNCHANGED <<env, poolVars, execVars, ingressVars, workerVars, callVars,
                   healthVars, concurrency_, mu_, q_, stop_, thread_pc,
                   thread_task, joined, tasks_submitted, runs, swallowed,
                   queued_at_stop>>

ThreadStep == \E i \in Threads : RunLock(i) \/ RunLocked(i) \/ RunTask(i)
SubmitStep == SubmitLock \/ SubmitPush \/ SubmitNotify
DestructorStep ==
    \/ DestructorLock
    \/ DestructorSetStop
    \/ DestructorNotify
    \/ DestructorJoin
    \/ DestructorReturn

-----------------------------------------------------------------------------
(* Executor state while the pool specification runs *)

NoResult == [status |-> "<none>"]
NoRequest == [type |-> "<none>", inputs |-> EmptyMap, timeout_ms |-> 0,
              retry_count |-> 0]
EmptyContext == [tenant_id |-> "", trace_id |-> "", run_id |-> "",
                 flow_id |-> "", step_id |-> "", sandbox |-> FALSE]

\* no function is being called on its own
NoCall == [fn |-> "<none>"]
NoCallMade ==
    /\ call = NoCall
    /\ answer = NoCall

ExecIdle ==
    /\ pc = "idle"
    /\ req = NoRequest
    /\ context_ = EmptyContext
    /\ attempt = 0
    /\ elapsed = 0
    /\ final_result = DefaultStepResult
    /\ http_status_code = 0
    /\ backoff_delay = 0
    /\ returned = NoResult
    /\ attempts_started = 0
    /\ last_attempt_end = 0
    /\ responses = <<>>
    /\ sleeps = <<>>
    /\ exhausted_seen = FALSE
    /\ step_errors_total = [l \in ErrorLabels |-> 0]

\* PoolActorState::PoolActorState
PoolConstructed ==
    /\ max_concurrency \in 1..MaxPoolSize
    /\ max_queue_size = IF is_queue_management_enabled
                        THEN DefaultMaxQueueSize ELSE 0
    /\ current_load = 0
    /\ pending_requests = <<>>
    /\ gauges = [queue_depth |-> NoSample, active_tasks |-> NoSample]
    /\ pool_log = <<>>
    /\ acks = <<>>
    /\ results = <<>>
    /\ submitted = <<>>
    /\ dispatched = <<>>
    /\ cancelled = {}
    /\ completed = {}
    /\ turns = 0

Init ==
    /\ env \in [EnvNames -> EnvValues]
    /\ \A n \in EnvNames \ PoolEnvNames : env[n] = Unset
    /\ PoolConstructed
    /\ ExecIdle
    /\ IngressConstructed
    /\ WorkerConstructed
    /\ HealthConstructed
    /\ NoActorPool
    /\ NoCallMade

Next == Submit \/ Cancel \/ PoolMetrics \/ ExecutorFinished \/ SetEnv

Spec == Init /\ [][Next]_vars

\* the pool with the environment's promise that every step that was given
\* an executor slot ends; the pool's messages come from outside and are
\* under no fairness
SpecPoolLive == Spec /\ WF_vars(ExecutorFinished)

-----------------------------------------------------------------------------
(* The cancel handler applied to every pending queue of at most           *)
(* MaxQueueLen entries: the pool is at capacity, the first max_concurrency *)
(* requests hold the slots and the later ones wait in pending_requests_.   *)

QueuedWith(f) ==
    [i \in DOMAIN f |-> [id |-> max_concurrency + i, inputs |-> f[i]]]

InitCancel ==
    /\ env \in [EnvNames -> EnvValues]
    /\ \A n \in EnvNames \ PoolEnvNames : env[n] = Unset
    /\ max_concurrency \in 1..MaxPoolSize
    /\ max_queue_size = IF is_queue_management_enabled
                        THEN DefaultMaxQueueSize ELSE 0
    /\ current_load = max_concurrency
    /\ \E n \in 0..MaxQueueLen : \E f \in [1..n -> PoolInputs] :
          /\ pending_requests = QueuedWith(f)
          /\ submitted = [i \in 1..max_concurrency |->
                              [id |-> i, inputs |-> EmptyMap]]
                         \o QueuedWith(f)
    /\ dispatched = [i \in 1..max_concurrency |-> i]
    /\ gauges = [queue_depth |-> NoSample, active_tasks |-> NoSample]
    /\ pool_log = <<>>
    /\ acks = <<>>
    /\ results = <<>>
    /\ cancelled = {}
    /\ completed = {}
    /\ turns = 0
    /\ ExecIdle
    /\ IngressConstructed
    /\ WorkerConstructed
    /\ HealthConstructed
    /\ NoActorPool
    /\ NoCallMade

NextCancel == Cancel

SpecCancel == InitCancel /\ [][NextCancel]_vars

\* the worker actor and the scheduler on their own
InitWorker ==
    /\ env \in [EnvNames -> EnvValues]
    /\ \A n \in EnvNames : env[n] = Unset
    /\ PoolConstructed
    /\ max_concurrency = 1
    /\ ExecIdle
    /\ IngressConstructed
    /\ WorkerConstructed
    /\ HealthConstructed
    /\ NoActorPool
    /\ NoCallMade

NextWorker == WorkerSubmit \/ WorkerCancel \/ WorkerLog \/ ScheduleStep

SpecWorker == InitWorker /\ [][NextWorker]_vars

\* the ingress actor on its own
InitIngress ==
    /\ env \in [EnvNames -> EnvValues]
    /\ \A n \in EnvNames \ PoolEnvNames : env[n] = Unset
    /\ PoolConstructed
    /\ max_concurrency = 1
    /\ ExecIdle
    /\ IngressConstructed
    /\ WorkerConstructed
    /\ HealthConstructed
    /\ NoActorPool
    /\ NoCallMade

NextIngress == IngressTick \/ Receive

SpecIngress == InitIngress /\ [][NextIngress]_vars

-----------------------------------------------------------------------------
(* Executor actor: ExecutorActorState::execute_with_retry *)

TimeoutChoices == {100, 300, 5000}

FullContext == [tenant_id |-> "t1", trace_id |-> "tr1", run_id |-> "r1",
                flow_id |-> "f1", step_id |-> "s1", sandbox |-> FALSE]
Contexts == {FullContext, [FullContext EXCEPT !.sandbox = TRUE]}

\* inputs maps of the requests sent to the executor: complete, or lacking a
\* required input, or (http) carrying headers that are not JSON, or (fs)
\* naming a path inside or outside the allowed directories, or (human)
\* carrying a timeout_seconds that is or is not a number
ExecInputs(type) ==
    {EmptyMap} \cup
    CASE type = "http.request" ->
             {[url |-> "u", method |-> "GET"],
              [url |-> "u", method |-> "GET", headers |-> "{oops"]}
      [] type = "fs.blob_put" -> {[path |-> p, content |-> "c"] : p \in Paths}
      [] type = "fs.blob_get" -> {[path |-> p] : p \in Paths}
      [] type = "sql.query" -> {[query |-> "SELECT 1"]}
      [] type = "human.approval" ->
             {[approval_type |-> "a", description |-> "d"],
              [approval_type |-> "a", description |-> "d",
               timeout_seconds |-> "0"],
              [approval_type |-> "a", description |-> "d",
               timeout_seconds |-> "soon"]}
      [] OTHER -> {}

ExecRequests ==
    {[type |-> t, inputs |-> i, timeout_ms |-> tm, retry_count |-> n] :
        t \in HandlerTypes, i \in UNION {ExecInputs(u) : u \in HandlerTypes},
        tm \in TimeoutChoices, n \in (-1)..MaxRetryCount}

\* ExecutorActorState::make_behavior, handler (execute_atom, StepRequest):
\* entry into execute_with_retry
ExecuteAtom ==
    /\ pc = "idle"
    /\ \E r \in ExecRequests, c \in Contexts :
          /\ r.inputs \in ExecInputs(r.type)
          /\ req' = r
          /\ context_' = c
    /\ pc' = "loop"
    /\ attempt' = 0
    /\ elapsed' = 0
    /\ final_result' = DefaultStepResult
    /\ http_status_code' = 0
    /\ UNCHANGED <<env, poolVars, ingressVars, workerVars, callVars, actorPoolVars, healthVars,
                   step_errors_total,
                   backoff_delay, returned, attempts_started,
                   last_attempt_end, responses, sleeps, exhausted_seen>>

\* mutant: the budget exit forgets to set the error code
budget_timeout_result_no_code(fr, attempt_, message) ==
    [fr EXCEPT !.retries_used = attempt_, !.status = "timeout",
               !.error_message = message]

\* the StepResult both budget exits of the loop build out of final_result
budget_timeout_result(fr, attempt_, message) ==
    [fr EXCEPT !.retries_used = attempt_, !.status = "timeout",
               !.error_code = "cancelled_by_timeout",
               !.error_message = message]

\* mutant: the exhausted budget does not end the loop
after_budget_check_no_return(exhausted) == "attempt"

\* where the loop goes after the budget test at its head
after_budget_check(exhausted) == IF exhausted THEN "done" ELSE "attempt"

\* head of the for loop: loop condition, then the budget test
LoopHead ==
    /\ pc = "loop"
    /\ IF ~(attempt <= req.retry_count)
       THEN /\ returned' = final_result
            /\ pc' = "done"
            /\ UNCHANGED <<final_result, exhausted_seen>>
       ELSE \E exhausted \in
                    is_budget_exhausted(elapsed, attempt, req.timeout_ms) :
            LET r == budget_timeout_result(final_result, attempt,
                        "Retry budget exhausted: total timeout exceeded")
            IN /\ pc' = after_budget_check(exhausted)
               /\ exhausted_seen' = (exhausted_seen \/ exhausted)
               /\ final_result' = IF exhausted THEN r ELSE final_result
               /\ returned' = IF exhausted THEN r ELSE returned
    /\ UNCHANGED <<env, poolVars, ingressVars, workerVars, callVars, actorPoolVars, healthVars,
                   step_errors_total,
                   req, context_, attempt, elapsed,
                   http_status_code, backoff_delay, attempts_started,
                   last_attempt_end, responses, sleeps>>

\* execute_single_attempt: the handler's yield with the measured latency
execute_single_attempt(y) ==
    IF y.ok THEN [y EXCEPT !.value.latency_ms = y.d] ELSE y

\* lines 381-414: what the loop does with the yield of one attempt;
\* ret tells whether execute_with_retry returns final_result here
after_attempt(result, fr, status_code, attempt_) ==
    IF result.ok
    THEN LET fr1 == [result.value EXCEPT !.retries_used = attempt_]
             code1 == IF req.type = "http.request"
                         /\ "status_code" \in DOMAIN result.value.outputs
                      THEN stoi(result.value.outputs["status_code"])
                      ELSE status_code
         IN [final_result |-> fr1, http_status_code |-> code1,
             ret |-> (fr1.status = "ok"
                      \/ ~is_retryable(fr1.error_code, code1))]
    ELSE IF ~is_retryable("network_error", 0)
         THEN [final_result |->
                   [fr EXCEPT !.status = "error",
                              !.error_code = "execution_failed",
                              !.error_message = "Execution failed and error is non-retryable",
                              !.retries_used = attempt_],
               http_status_code |-> status_code, ret |-> TRUE]
         ELSE [final_result |-> fr, http_status_code |-> status_code,
               ret |-> FALSE]

\* one handler invocation and its classification
Attempt ==
    /\ pc = "attempt"
    /\ \E y \in execute(req, context_) :
          LET result == execute_single_attempt(y)
              a == after_attempt(result, final_result, http_status_code,
                                 attempt)
          IN /\ elapsed' = elapsed + y.d
             /\ last_attempt_end' = elapsed + y.d
             /\ attempts_started' = attempts_started + 1
             /\ responses' = Append(responses, y.response)
             /\ IF y.thrown
                THEN \* nothing between the handler and the actor's message
                     \* handler catches: the handler is left by the exception
                     /\ pc' = "crashed"
                     /\ UNCHANGED <<final_result, http_status_code, returned>>
                ELSE /\ final_result' = a.final_result
                     /\ http_status_code' = a.http_status_code
                     /\ returned' = IF a.ret THEN a.final_result ELSE returned
                     /\ pc' = IF a.ret THEN "done" ELSE "backoff"
    /\ UNCHANGED <<env, poolVars, ingressVars, workerVars, callVars, actorPoolVars, healthVars,
                   step_errors_total,
                   req, context_, attempt, backoff_delay,
                   sleeps, exhausted_seen>>

\* lines 416-434: the budget test in front of the backoff sleep
Backoff ==
    /\ pc = "backoff"
    /\ IF attempt < req.retry_count
       THEN \E delay \in calculate_backoff_delay(attempt) :
            LET r == budget_timeout_result(final_result, attempt,
                        "Retry budget exhausted: backoff delay would exceed total timeout")
            IN IF elapsed + delay >= req.timeout_ms
               THEN /\ final_result' = r
                    /\ returned' = r
                    /\ exhausted_seen' = TRUE
                    /\ pc' = "done"
                    /\ UNCHANGED <<attempt, backoff_delay>>
               ELSE /\ backoff_delay' = delay
                    /\ pc' = "sleep"
                    /\ UNCHANGED <<attempt, final_result, returned,
                                   exhausted_seen>>
       ELSE /\ attempt' = attempt + 1
            /\ pc' = "loop"
            /\ UNCHANGED <<backoff_delay, final_result, returned,
                           exhausted_seen>>
    /\ UNCHANGED <<env, poolVars, ingressVars, workerVars, callVars, actorPoolVars, healthVars,
                   step_errors_total,
                   req, context_, elapsed, http_status_code,
                   attempts_started, last_attempt_end, responses, sleeps>>

\* line 435: std::this_thread::sleep_for(backoff_delay), then attempt++
Sleep ==
    /\ pc = "sleep"
    /\ elapsed' = elapsed + (IF backoff_delay > 0 THEN backoff_delay ELSE 0)
    /\ sleeps' = Append(sleeps, backoff_delay)
    /\ attempt' = attempt + 1
    /\ pc' = "loop"
    /\ UNCHANGED <<env, poolVars, ingressVars, workerVars, callVars, actorPoolVars, healthVars,
                   step_errors_total,
                   req, context_, final_result,
                   http_status_code, backoff_delay, returned,
                   attempts_started, last_attempt_end, responses,
                   exhausted_seen>>

\* Observability::record_step_error: the labels are built, the increment of
\* the counter is commented out
record_step_error(total, error_code) == total

\* ExecutorActorState::record_step_metrics; record_step_execution and
\* record_step_execution_duration change nothing either
record_step_metrics(total, request, result) ==
    IF ~is_observability_metrics_enabled THEN total
    ELSE IF result.status = "error"
         THEN record_step_error(total,
                                error_code_str(ErrorCodeValue(result.error_code)))
    ELSE total

\* the execute handler after execute_with_retry has returned
Complete ==
    /\ pc = "done"
    /\ pc' = "finished"
    /\ step_errors_total' = record_step_metrics(step_errors_total, req,
                                                returned)
    /\ UNCHANGED <<env, poolVars, ingressVars, workerVars, callVars, actorPoolVars, healthVars,
                   req, context_, attempt, elapsed,
                   final_result, http_status_code, backoff_delay, returned,
                   attempts_started, last_attempt_end, responses, sleeps,
                   exhausted_seen>>

ExecEnvNames == {"CP2_ADVANCED_RETRY_ENABLED", "CP2_COMPLETE_TIMEOUT_ENABLED",
                 "CP2_OBSERVABILITY_METRICS_ENABLED"}

InitExec ==
    /\ env \in [EnvNames -> EnvValues]
    /\ \A n \in EnvNames \ ExecEnvNames : env[n] = Unset
    /\ PoolConstructed
    /\ max_concurrency = 1
    /\ ExecIdle
    /\ IngressConstructed
    /\ WorkerConstructed
    /\ HealthConstructed
    /\ NoActorPool
    /\ NoCallMade

NextExec == ExecuteAtom \/ LoopHead \/ Attempt \/ Backoff \/ Sleep \/ Complete

SpecExec == InitExec /\ [][NextExec]_vars

\* RetryPolicy::calculate_backoff_delay on its own, for every attempt
\* number up to MaxBackoffAttempt
CalculateBackoff ==
    /\ pc = "policy"
    /\ \E delay \in calculate_backoff_delay(attempt) :
          backoff_delay' = delay
    /\ pc' = "policy_done"
    /\ UNCHANGED <<env, poolVars, ingressVars, workerVars, callVars, actorPoolVars, healthVars,
                   step_errors_total,
                   req, context_, attempt, elapsed, final_result,
                   http_status_code, returned, attempts_started,
                   last_attempt_end, responses, sleeps, exhausted_seen>>

InitPolicy ==
    /\ env \in [EnvNames -> EnvValues]
    /\ \A n \in EnvNames \ ExecEnvNames : env[n] = Unset
    /\ PoolConstructed
    /\ max_concurrency = 1
    /\ IngressConstructed
    /\ WorkerConstructed
    /\ HealthConstructed
    /\ NoActorPool
    /\ NoCallMade
    /\ pc = "policy"
    /\ attempt \in 0..MaxBackoffAttempt
    /\ req = NoRequest
    /\ context_ = EmptyContext
    /\ elapsed = 0
    /\ final_result = DefaultStepResult
    /\ http_status_code = 0
    /\ backoff_delay = 0
    /\ returned = NoResult
    /\ attempts_started = 0
    /\ last_attempt_end = 0
    /\ responses = <<>>
    /\ sleeps = <<>>
    /\ exhausted_seen = FALSE
    /\ step_errors_total = [l \in ErrorLabels |-> 0]

NextPolicy == CalculateBackoff

SpecPolicy == InitPolicy /\ [][NextPolicy]_vars

\* the four factories of StepResult on their own, for every combination of
\* arguments out of small sets
FactoryNames == {"success", "error_result", "timeout_result",
                 "cancelled_result"}
Latencies == {-1, 0, 50}
FactoryCalls ==
    [fn : FactoryNames, code : ErrorCodes, message : {"", "boom"},
     meta : {EmptyMeta, metadata_from_context(FullContext)},
     outputs : {EmptyMap, [size |-> "1"]}, latency_ms : Latencies]

Construct ==
    /\ call.fn \in FactoryNames
    /\ answer = NoCall
    /\ answer' =
          [fn |-> call.fn,
           value |->
              CASE call.fn = "success" ->
                       success(call.meta, call.outputs, call.latency_ms)
                [] call.fn = "error_result" ->
                       error_result(call.code, call.message, call.meta,
                                    call.latency_ms)
                [] call.fn = "timeout_result" ->
                       timeout_result(call.meta, call.latency_ms)
                [] call.fn = "cancelled_result" ->
                       cancelled_result(call.meta, call.latency_ms)]
    /\ UNCHANGED <<env, poolVars, execVars, ingressVars, workerVars, healthVars, actorPoolVars, call>>

InitFactory ==
    /\ env \in [EnvNames -> EnvValues]
    /\ \A n \in EnvNames : env[n] = Unset
    /\ PoolConstructed
    /\ max_concurrency = 1
    /\ ExecIdle
    /\ IngressConstructed
    /\ WorkerConstructed
    /\ HealthConstructed
    /\ NoActorPool
    /\ call \in FactoryCalls
    /\ answer = NoCall

NextFactory == Construct

SpecFactory == InitFactory /\ [][NextFactory]_vars

\* ResultConverter::validate_result on its own, for every StepResult whose
\* status, error code, latency and retry count come out of small sets
Statuses == {"ok", "error", "timeout", "cancelled"}
RetryCounts == {-1, 0, 1}
StepResults ==
    {[DefaultStepResult EXCEPT !.status = st, !.error_code = code,
                               !.latency_ms = l, !.retries_used = n] :
        st \in Statuses, code \in ErrorCodes, l \in Latencies,
        n \in RetryCounts}

Validate ==
    /\ call.fn = "validate_result"
    /\ answer = NoCall
    /\ answer' = [fn |-> call.fn, value |-> validate_result(call.result)]
    /\ UNCHANGED <<env, poolVars, execVars, ingressVars, workerVars, healthVars, actorPoolVars, call>>

InitValidate ==
    /\ env \in [EnvNames -> EnvValues]
    /\ \A n \in EnvNames : env[n] = Unset
    /\ PoolConstructed
    /\ max_concurrency = 1
    /\ ExecIdle
    /\ IngressConstructed
    /\ WorkerConstructed
    /\ HealthConstructed
    /\ NoActorPool
    /\ call \in [fn : {"validate_result"}, result : StepResults]
    /\ answer = NoCall

NextValidate == Validate

SpecValidate == InitValidate /\ [][NextValidate]_vars

\* one execute call of a block handler on its own, for every request the
\* executor can be given
HandlerRequests ==
    {r \in ExecRequests : r.inputs \in ExecInputs(r.type) /\ r.retry_count = 0}

HandlerExecute ==
    /\ call.fn = "execute"
    /\ answer = NoCall
    /\ \E y \in execute(call.request, call.ctx) :
          answer' = [fn |-> call.fn, value |-> y]
    /\ UNCHANGED <<env, poolVars, execVars, ingressVars, workerVars, healthVars, actorPoolVars, call>>

HandlerEnvNames == {"CP2_COMPLETE_TIMEOUT_ENABLED"}

InitHandler ==
    /\ env \in [EnvNames -> EnvValues]
    /\ \A n \in EnvNames \ HandlerEnvNames : env[n] = Unset
    /\ PoolConstructed
    /\ max_concurrency = 1
    /\ ExecIdle
    /\ IngressConstructed
    /\ WorkerConstructed
    /\ HealthConstructed
    /\ NoActorPool
    /\ call \in [fn : {"execute"}, request : HandlerRequests, ctx : Contexts]
    /\ answer = NoCall

NextHandler == HandlerExecute

SpecHandler == InitHandler /\ [][NextHandler]_vars

\* the health endpoint with its clients
InitHealth ==
    /\ env \in [EnvNames -> EnvValues]
    /\ \A n \in EnvNames : env[n] = Unset
    /\ PoolConstructed
    /\ max_concurrency = 1
    /\ ExecIdle
    /\ IngressConstructed
    /\ WorkerConstructed
    /\ HealthConstructed
    /\ NoActorPool
    /\ NoCallMade

NextHealth == StartHealth \/ ClientStep \/ ServerStep \/ StopStep

SpecHealth == InitHealth /\ [][NextHealth]_vars

\* the server thread and the caller of stop are scheduled again and again;
\* nothing makes a client connect or send
SpecHealthLive ==
    SpecHealth /\ WF_vars(ServerStep) /\ WF_vars(StopStep)

\* the legacy thread pool with its threads and its owner
InitActorPool ==
    /\ env \in [EnvNames -> EnvValues]
    /\ \A n \in EnvNames : env[n] = Unset
    /\ PoolConstructed
    /\ ExecIdle
    /\ IngressConstructed
    /\ WorkerConstructed
    /\ HealthConstructed
    /\ NoCallMade
    /\ \E concurrency \in 1..MaxThreads : ActorPoolConstructed(concurrency)

NextActorPool == SubmitStep \/ ThreadStep \/ SpuriousWake \/ DestructorStep

SpecActorPool == InitActorPool /\ [][NextActorPool]_vars

-----------------------------------------------------------------------------
(* PII filter of the structured log (observability.cpp) *)

PII_FIELDS == {"password", "api_key", "secret", "token", "access_token",
               "refresh_token", "authorization", "credit_card", "ssn",
               "email", "phone"}

\* lower_field.find(pii_field) != npos on the field names that occur
FieldTerms(lower_field) ==
    CASE lower_field = "password" -> {"password"}
      [] lower_field = "api_key_id" -> {"api_key"}
      [] OTHER -> {}

\* mutant: only a field name equal to a term is filtered
is_pii_field_exact(field_name) ==
    LET lower_field == ToLower(field_name)
    IN \E pii_field \in PII_FIELDS : lower_field = pii_field

is_pii_field(field_name) ==
    LET lower_field == ToLower(field_name)
    IN \E pii_field \in PII_FIELDS :
          lower_field = pii_field \/ pii_field \in FieldTerms(lower_field)

\* nlohmann::json values: a string, an object (a set of fields, one per
\* field name) or an array (a sequence of values); t tells which of s, o
\* and a holds the value
JsonString(str) == [t |-> "string", s |-> str, o |-> {}, a |-> <<>>]
JsonObject(fields) == [t |-> "object", s |-> "", o |-> fields, a |-> <<>>]
JsonArray(items) == [t |-> "array", s |-> "", o |-> {}, a |-> items]
is_object(j) == j.t = "object"
is_array(j) == j.t = "array"
Redacted == JsonString("[REDACTED]")

RECURSIVE filter_pii_recursive(_)
filter_pii_recursive(obj) ==
    IF is_object(obj)
    THEN JsonObject({[key |-> it.key,
                      value |->
                         IF is_pii_field(it.key) THEN Redacted
                         ELSE IF is_object(it.value) \/ is_array(it.value)
                              THEN filter_pii_recursive(it.value)
                         ELSE it.value] : it \in obj.o})
    ELSE IF is_array(obj)
    THEN JsonArray([i \in DOMAIN obj.a |->
                       IF is_object(obj.a[i]) \/ is_array(obj.a[i])
                       THEN filter_pii_recursive(obj.a[i])
                       ELSE obj.a[i]])
    ELSE obj

\* the log contexts given to the filter: strings, and objects and arrays
\* nested two deep, arrays of at most MaxArrayLen items
JsonKeys == {"user", "Password", "API_Key_Id"}
JsonLeaves == {JsonString("x")}
ObjectsOver(values) ==
    UNION {{JsonObject({[key |-> k, value |-> f[k]] : k \in S}) :
               f \in [S -> values]} : S \in SUBSET JsonKeys}
ArraysOver(values) ==
    UNION {{JsonArray(items) : items \in [1..n -> values]} :
              n \in 0..MaxArrayLen}
JsonNested == JsonLeaves \cup ObjectsOver(JsonLeaves) \cup ArraysOver(JsonLeaves)
JsonDocs == JsonLeaves \cup ObjectsOver(JsonNested) \cup ArraysOver(JsonNested)

FilterPii ==
    /\ call.fn = "filter_pii_recursive"
    /\ answer = NoCall
    /\ answer' = [fn |-> call.fn, value |-> filter_pii_recursive(call.obj)]
    /\ UNCHANGED <<env, poolVars, execVars, ingressVars, workerVars, healthVars, actorPoolVars, call>>

InitFilter ==
    /\ env \in [EnvNames -> EnvValues]
    /\ \A n \in EnvNames : env[n] = Unset
    /\ PoolConstructed
    /\ max_concurrency = 1
    /\ ExecIdle
    /\ IngressConstructed
    /\ WorkerConstructed
    /\ HealthConstructed
    /\ NoActorPool
    /\ call \in [fn : {"filter_pii_recursive"}, obj : JsonDocs]
    /\ answer = NoCall

NextFilter == FilterPii

SpecFilter == InitFilter /\ [][NextFilter]_vars

-----------------------------------------------------------------------------
(* Properties of the pool actor, checked under Spec *)

ConstructedWithQueueManagement == max_queue_size = DefaultMaxQueueSize

\* ids of the requests the pool rejected (logged with reason queue_full)
RejectedIds ==
    {pool_log[k].id : k \in {n \in 1..Len(pool_log) :
                                 pool_log[n].reason = "queue_full"}}
IsDispatched(id) == \E k \in 1..Len(dispatched) : dispatched[k] = id
DispatchPos(id) == CHOOSE k \in 1..Len(dispatched) : dispatched[k] = id
IsAdmitted(id) == id \in 1..Len(submitted) /\ id \notin RejectedIds

\* C1: with queue-management on (max_queue_size = N), after any sequence of
\* submits the pending queue holds at most N entries and current_load is at
\* most max_concurrency.
C1_QueueAndLoadBounded ==
    ConstructedWithQueueManagement =>
        /\ Len(pending_requests) <= max_queue_size
        /\ current_load <= max_concurrency

\* more requests were submitted than the pool has slots, and the pool is full
C1_Witness ==
    /\ ConstructedWithQueueManagement
    /\ Len(submitted) > max_concurrency
    /\ current_load = max_concurrency

IsSubmitStep == Len(submitted') = Len(submitted) + 1
SubmittedRequest == submitted'[Len(submitted')]

C4_EnqueuedAtTail ==
    [][ ( /\ IsSubmitStep
          /\ current_load >= max_concurrency
          /\ ~( /\ is_queue_management_enabled
                /\ Len(pending_requests) >= max_queue_size ) )
        => pending_requests' = Append(pending_requests, SubmittedRequest) ]_vars

\* C5 (as claimed, for the first three submits, which no queue bound of two
\* or more can reject): with queue-management on and max_concurrency = 1,
\* three submits and no completion leave one request dispatched and two
\* queued.
C5_OneDispatchedTwoQueued ==
    ( /\ ConstructedWithQueueManagement
      /\ is_queue_management_enabled
      /\ max_concurrency = 1
      /\ Len(submitted) = 3
      /\ turns = 3 )
    => ( /\ Len(dispatched) = 1
         /\ current_load = 1
         /\ Len(pending_requests) = 2 )


-----------------------------------------------------------------------------
(* Properties of the executor's retry loop, checked under SpecExec *)

InRetryLoop == pc \in {"loop", "attempt", "backoff", "sleep", "done", "finished"}

\* C6: with advanced retry enabled, the time spent in all attempts plus all
\* backoff sleeps of one request never exceeds its total_timeout_ms, and no
\* attempt ends after the deadline.
C6_TotalWithinDeadline ==
    (is_advanced_retry_enabled /\ InRetryLoop)
        => /\ elapsed <= req.timeout_ms
           /\ last_attempt_end <= req.timeout_ms

\* C7: once a budget-exhaustion test of the retry loop has returned true,
\* no further attempt of that request is started.
C7_NoAttemptAfterExhaustion ==
    [][exhausted_seen => attempts_started' = attempts_started]_vars

\* the budget ran out although the request still had retries left
C7_Witness ==
    /\ exhausted_seen
    /\ pc = "finished"
    /\ attempts_started >= 1
    /\ attempt <= req.retry_count
    /\ attempts_started <= req.retry_count

LegalPairs ==
    {<<"ok", c>> : c \in {"none"}}
    \cup {<<"error", c>> : c \in ErrorCodes \ {"none"}}
    \cup {<<"timeout", "cancelled_by_timeout">>,
          <<"cancelled", "cancelled_by_user">>}

\* C8: the StepResult returned by the executor passes validate_result and
\* its status/error_code pair is one of the four legal combinations, on
\* every path out of the retry loop.
C8_ReturnedResultValid ==
    pc \in {"done", "finished"}
        => /\ validate_result(returned)
           /\ <<returned.status, returned.error_code>> \in LegalPairs

\* the loop was left through a budget exit after an attempt had failed
C8_Witness ==
    /\ pc = "done"
    /\ exhausted_seen
    /\ attempts_started >= 1
    /\ returned.status = "timeout"
    /\ returned.error_code = "cancelled_by_timeout"

AllRaw == \A i \in 1..Len(responses) : responses[i] = "raw"

\* C9: when every attempt of a request ended in a raw handler failure, the
\* result returned is status = error with error_code = execution_failed.
C9_RawFailureBecomesError ==
    (pc = "done" /\ ~exhausted_seen /\ attempts_started >= 1 /\ AllRaw)
        => /\ returned.status = "error"
           /\ returned.error_code = "execution_failed"

\* C10: with advanced retry enabled, an HTTP 404 is not retried: exactly one
\* attempt, status = error, error_code = http_error, retries_used = 0,
\* whatever the request's retry_count.
C10_Http404NotRetried ==
    (/\ pc = "done"
     /\ is_advanced_retry_enabled
     /\ req.type = "http.request"
     /\ responses # <<>>
     /\ responses[1] = "404")
        => /\ attempts_started = 1
           /\ returned.status = "error"
           /\ returned.error_code = "http_error"
           /\ returned.retries_used = 0

\* an http.request with timeout_ms = 5000 and retry_count = 3 whose attempts
\* saw 500, 500, 200, advanced retry enabled
SawFiveHundredTwiceThenOk ==
    /\ pc = "done"
    /\ is_advanced_retry_enabled
    /\ req.type = "http.request"
    /\ req.timeout_ms = 5000
    /\ req.retry_count = 3
    /\ responses = <<"500", "500", "200">>

\* C11: with advanced retry enabled, timeout_ms = 5000 and retry_count = 3,
\* an http.request whose attempts see 500, 500, 200 returns status = ok with
\* retries_used = 2 after exactly three attempts, having slept 100 ms after
\* the first failure and 200 ms after the second.
C11_RetryThenSuccess ==
    SawFiveHundredTwiceThenOk
        => /\ returned.status = "ok"
           /\ returned.error_code = "none"
           /\ returned.retries_used = 2
           /\ attempts_started = 3
           /\ sleeps = <<100, 200>>

C11_Witness ==
    /\ SawFiveHundredTwiceThenOk
    /\ returned.status = "ok"
    /\ sleeps = <<100, 200>>

\* C12: every returned StepResult has latency_ms >= 0 and retries_used in
\* [0, retry_count] of its request.
C12_LatencyAndRetriesInRange ==
    pc \in {"done", "finished"}
        => /\ returned.latency_ms >= 0
           /\ returned.retries_used >= 0
           /\ returned.retries_used <= req.retry_count

\* C13: when the retry loop ends with a budget-exhaustion timeout, the
\* result's retries_used equals the number of attempts started before the
\* exhaustion, on the exit before an attempt and on the exit before a sleep.
C13_RetriesUsedCountsAttempts ==
    (pc = "done" /\ exhausted_seen)
        => /\ returned.status = "timeout"
           /\ returned.retries_used = attempts_started

\* C14: every StepResult returned for a step, the timeouts produced by the
\* retry loop included, carries metadata equal field for field to
\* metadata_from_context of the context the step ran under.
C14_MetadataFromContext ==
    pc \in {"done", "finished"}
        => returned.metadata = metadata_from_context(context_)

-----------------------------------------------------------------------------
(* Properties of the cancel handler, checked under SpecCancel *)

IsCancelStep == \E s \in StepIds : PoolCancel(s)

QueueIds(q) == {q[i].id : i \in 1..Len(q)}

\* the ids a step takes out of the pending queue
RemovedIds == QueueIds(pending_requests) \ QueueIds(pending_requests')

StepIdOf(r) ==
    IF "step_id" \in DOMAIN r.inputs THEN r.inputs["step_id"] ELSE ""

\* the entries of q whose step_id differs from s, in their order
RECURSIVE Retained(_, _)
Retained(q, s) ==
    IF q = <<>> THEN <<>>
    ELSE IF StepIdOf(Head(q)) # s
         THEN <<Head(q)>> \o Retained(Tail(q), s)
         ELSE Retained(Tail(q), s)

-----------------------------------------------------------------------------
(* Life cycle of the pool's requests, checked under Spec *)

DispatchedIds == {dispatched[k] : k \in 1..Len(dispatched)}

\* the states a submitted request is in
EntryStates(id) ==
    (IF id \in QueueIds(pending_requests) THEN {"Enqueued"} ELSE {})
    \cup (IF id \in DispatchedIds THEN {"Dispatched"} ELSE {})
    \cup (IF id \in RejectedIds THEN {"Rejected"} ELSE {})
    \cup (IF id \in cancelled THEN {"Cancelled"} ELSE {})

Terminal == {"Dispatched", "Rejected", "Cancelled"}

\* C17: a request handed to the pool is Enqueued until it leaves that state
\* by exactly one of Dispatched, Rejected or Cancelled; the three are
\* terminal: such an entry is never enqueued or dispatched again and is
\* counted in current_load once.
C17_EntryLifecycle ==
    [][/\ \A id \in 1..Len(submitted') :
              Cardinality(EntryStates(id)') = 1
       /\ \A id \in 1..Len(submitted) :
              EntryStates(id) \cap Terminal # {}
                  => EntryStates(id)' = EntryStates(id)
       /\ Cardinality(DispatchedIds') = Len(dispatched')
       /\ current_load' = Len(dispatched')]_vars

\* C18: after every state change of the pool (submit, rejection, dispatch,
\* cancel), before its next message, the gauge worker_queue_depth equals
\* the queue length and worker_active_tasks equals current_load (metrics
\* enabled).
C18_GaugesFollowState ==
    [][((IsSubmitStep \/ IsCancelStep) /\ is_observability_metrics_enabled)
          => /\ gauges'.queue_depth = Len(pending_requests')
             /\ gauges'.active_tasks = current_load']_vars

-----------------------------------------------------------------------------
(* Acknowledgements and results on the bus *)

ValidAssignment(a) ==
    /\ a.version = "1"
    /\ a.assignment_id # ""
    /\ a.request_id # ""
    /\ a.tenant_id # ""
    /\ a.job_type \in HandlerTypes

\* C20: an invalid assignment (version other than "1", empty assignment_id,
\* request_id or tenant_id, or unrecognized job type) makes ingress publish
\* a rejected acknowledgement with a reason; it reaches no pool and
\* produces no result.
C20_InvalidRejectedAtIngress ==
    [][\A a \in Assignments :
          (IngressReceive(a) /\ ~ValidAssignment(a))
              => /\ Len(acks') = Len(acks) + 1
                 /\ acks'[Len(acks')].status = "rejected"
                 /\ acks'[Len(acks')].reason # ""
                 /\ forwarded' = forwarded
                 /\ submitted' = submitted
                 /\ results' = results]_vars

-----------------------------------------------------------------------------
(* Routing, checked under SpecWorker *)

\* the pool a request belongs to: io for HTTP and FS step types, gpu for AI
\* and media types, otherwise the pool of its resources.class hint, cpu
\* without a hint
RoutedPool(r) ==
    IF starts_with(r.type, "http.") \/ starts_with(r.type, "fs.") THEN "io"
    ELSE IF starts_with(r.type, "ai.") \/ starts_with(r.type, "media.")
         THEN "gpu"
    ELSE IF "class" \in DOMAIN r.resources THEN r.resources["class"]
    ELSE "cpu"

\* C21: a request is forwarded to the pool named by its resources.class
\* hint, to the cpu pool without a hint, except that HTTP and FS step types
\* always go to the io pool and AI/media types to the gpu pool.
C21_RoutedByClassAndType ==
    /\ \A k \in 1..Len(worker_out) :
          worker_out[k].atom = "execute"
              => worker_out[k].to = RoutedPool(worker_out[k].payload)
    /\ \A k \in 1..Len(scheduled) :
          scheduled[k].pool = RoutedPool(scheduled[k].request)

-----------------------------------------------------------------------------
(* Retry policy and result model, checked under SpecExec *)

\* C22: with the advanced-retry flag off the retry budget is never treated
\* as exhausted: the retry loop returns no timeout result of its own, and a
\* non-ok attempt is followed by another one until retry_count retries
\* have been used.
C22_LegacyNeverExhausted ==
    (pc = "done" /\ ~is_advanced_retry_enabled)
        => /\ ~exhausted_seen
           /\ (returned.status # "ok" /\ req.retry_count >= 0)
                 => attempts_started = req.retry_count + 1

\* C23: with advanced retry enabled, backoff(attempt) is monotonically
\* non-decreasing in attempt and never exceeds max_delay_ms, for every
\* attempt number the retry loop can reach.
C23_BackoffMonotoneBounded ==
    (pc = "policy_done" /\ is_advanced_retry_enabled)
        => /\ backoff_delay <= MaxDelayMs
           /\ backoff_delay >= 0
           /\ attempt > 0
                 => \A previous \in calculate_backoff_delay(attempt - 1) :
                        previous <= backoff_delay

-----------------------------------------------------------------------------
(* The result model, checked under SpecFactory and SpecValidate *)

\* C24: every StepResult built by one of the four factories, for any
\* arguments, has error_code = none when its status is ok and an error_code
\* other than none when its status is error, timeout or cancelled.
C24_FactoriesKeepInvariants ==
    (answer # NoCall /\ call.fn \in FactoryNames)
        => /\ answer.value.status = "ok"
                 => answer.value.error_code = "none"
           /\ answer.value.status \in {"error", "timeout", "cancelled"}
                 => answer.value.error_code # "none"

\* the invariants of a StepResult
StepResultInvariants(r) ==
    /\ r.status = "ok" => r.error_code = "none"
    /\ r.status \in {"error", "timeout", "cancelled"} => r.error_code # "none"
    /\ r.status = "timeout" => r.error_code = "cancelled_by_timeout"
    /\ r.latency_ms >= 0
    /\ r.retries_used >= 0

\* C25: validate(r) returns true exactly when r satisfies all the StepResult
\* invariants: ok implies none; error, timeout and cancelled imply a code
\* other than none; timeout implies cancelled_by_timeout; latency_ms >= 0;
\* retries_used >= 0.
C25_ValidateIffInvariants ==
    (answer # NoCall /\ call.fn = "validate_result")
        => (answer.value <=> StepResultInvariants(call.result))

-----------------------------------------------------------------------------
(* Step metrics of the executor, checked under SpecExec *)

\* C26: with the metrics flag on, after a terminal return of the executor
\* worker_step_errors_total has been incremented exactly once, under the
\* label of the result's error code, when the final status is not ok (error,
\* timeout and cancelled alike), and not at all when it is ok.
C26_OneErrorIncrementIffNotOk ==
    (pc = "finished" /\ is_observability_metrics_enabled)
        => \A l \in ErrorLabels :
              step_errors_total[l] =
                 IF returned.status # "ok"
                    /\ l = error_code_str(ErrorCodeValue(returned.error_code))
                 THEN 1 ELSE 0

\* C27: in a run whose first two attempts fail with HTTP 500 and whose third
\* succeeds, worker_step_errors_total{error_code="3003"} has been incremented
\* exactly twice, once per failed intermediate attempt.
C27_TwoIncrementsForTwoFailures ==
    (/\ pc = "finished"
     /\ is_observability_metrics_enabled
     /\ req.type = "http.request"
     /\ responses = <<"500", "500", "200">>)
        => step_errors_total["3003"] = 2

-----------------------------------------------------------------------------
(* The block handlers, checked under SpecHandler *)

FsTypes == {"fs.blob_put", "fs.blob_get"}

\* C28: with complete timeout enabled, an FS handler whose file operation
\* does not finish within its per-operation timeout returns a timeout
\* result: status = timeout and error_code = cancelled_by_timeout.
C28_FsTimeoutIsTimeoutResult ==
    (/\ answer # NoCall
     /\ call.fn = "execute"
     /\ call.request.type \in FsTypes
     /\ is_complete_timeout_enabled
     /\ answer.value.response = "fs_timeout")
        => /\ answer.value.ok
           /\ answer.value.value.status = "timeout"
           /\ answer.value.value.error_code = "cancelled_by_timeout"

\* the request for one FS handler and one path
FsRequest(type, path, timeout_ms) ==
    [type |-> type,
     inputs |-> IF type = "fs.blob_put"
                THEN [path |-> path, content |-> "c"] ELSE [path |-> path],
     timeout_ms |-> timeout_ms, retry_count |-> 0]

\* C29: every path outside the allow-list is refused with one and the same
\* error code by both FS handlers, whatever the text of the path: the code
\* of the refusal at hand is the code of every refusal of either handler.
C29_OneRefusalCode ==
    (/\ answer # NoCall
     /\ call.fn = "execute"
     /\ call.request.type \in FsTypes
     /\ answer.value.response = "refused")
        => \A type \in FsTypes : \A path \in Paths :
              ~is_path_allowed(path)
                 => \A y \in execute(FsRequest(type, path,
                                               call.request.timeout_ms),
                                     call.ctx) :
                       /\ y.ok
                       /\ y.value.status = "error"
                       /\ y.value.error_code = answer.value.value.error_code

\* the handlers of the repository
RealHandlerTypes == {"http.request", "fs.blob_put", "fs.blob_get",
                     "sql.query", "human.approval"}

\* C30: no handler lets an error escape as a raw exception: for every
\* request, whatever its input values, execute returns a StepResult.
C30_NoExceptionEscapes ==
    (/\ answer # NoCall
     /\ call.fn = "execute"
     /\ call.request.type \in RealHandlerTypes)
        => /\ ~answer.value.thrown
           /\ answer.value.ok

-----------------------------------------------------------------------------
(* The PII filter, checked under SpecFilter *)

\* the field name, lowercased, equals or contains a sensitive term
Sensitive(name) ==
    \/ name \in {"Password"}
    \/ name \in {"API_Key_Id"}

\* after is before with every sensitive field redacted, at any depth
RECURSIVE RedactedFrom(_, _)
RedactedFrom(before, after) ==
    IF before.t = "object"
    THEN /\ after.t = "object"
         /\ {f.key : f \in after.o} = {f.key : f \in before.o}
         /\ \A f \in before.o : \A g \in after.o :
               f.key = g.key
                  => IF Sensitive(f.key)
                     THEN g.value = JsonString("[REDACTED]")
                     ELSE RedactedFrom(f.value, g.value)
    ELSE IF before.t = "array"
    THEN /\ after.t = "array"
         /\ Len(after.a) = Len(before.a)
         /\ \A i \in 1..Len(before.a) : RedactedFrom(before.a[i], after.a[i])
    ELSE after = before

\* C31: after the filter has run on a log context, every field at any
\* nesting depth, inside objects and arrays, whose lowercased name equals or
\* contains a sensitive term has the value "[REDACTED]", and every other
\* field is unchanged.
C31_SensitiveFieldsRedacted ==
    (answer # NoCall /\ call.fn = "filter_pii_recursive")
        => RedactedFrom(call.obj, answer.value)

\* a sensitive field that only contains a term, inside an object inside an
\* array, has been redacted next to a field that was kept
C31_Witness ==
    /\ answer # NoCall
    /\ call.fn = "filter_pii_recursive"
    /\ call.obj = JsonArray(<<JsonObject({[key |-> "user",
                                           value |-> JsonString("x")],
                                          [key |-> "API_Key_Id",
                                           value |-> JsonString("x")]})>>)
    /\ answer.value = JsonArray(<<JsonObject({[key |-> "user",
                                               value |-> JsonString("x")],
                                              [key |-> "API_Key_Id",
                                               value |-> Redacted]})>>)

-----------------------------------------------------------------------------
(* The health endpoint, checked under SpecHealthLive *)

\* C32: stopping a running endpoint always completes: once the stop call
\* has cleared health_server_running_, the server thread leaves its loop, is
\* joined, and the stop call returns, whatever the thread was doing.
C32_StopCompletes == (stop_pc = "close") ~> (stop_pc = "returned")

-----------------------------------------------------------------------------
(* The end of a step, seen from the pool; checked under Spec *)

IsCompletionStep == completed' # completed

\* C33: when an executor finishes a step, its pool decrements current_load
\* by exactly one and then dispatches queued entries from the head while
\* current_load < max_concurrency and the queue is non-empty.
C33_CompletionFreesSlot ==
    [][IsCompletionStep =>
          LET p == process_pending(current_load - 1, pending_requests,
                                   dispatched, gauges)
          IN /\ current_load' = p.load
             /\ pending_requests' = p.queue
             /\ dispatched' = p.sent]_vars

\* queue depths around the documented bound
Depths == {0, DefaultMaxQueueSize - 1, DefaultMaxQueueSize,
           DefaultMaxQueueSize + 1}

Waiting(id) ==
    /\ IsAdmitted(id)
    /\ ~IsDispatched(id)
    /\ id \notin cancelled

\* C35: assuming every dispatched step eventually completes, every request
\* that was enqueued and is not cancelled is eventually dispatched.
C35_QueuedEventuallyDispatched ==
    \A id \in 1..MaxTurns :
        Waiting(id) ~> (IsDispatched(id) \/ id \in cancelled)

\* C36: no submit is silently lost: after the pool has handled a submit the
\* request is in exactly one of three places: dispatched, in the pending
\* queue, or rejected with a signal sent upstream.
C36_SubmitNotLost ==
    [][IsSubmitStep =>
          LET id == SubmittedRequest.id
              places ==
                  (IF id \in DispatchedIds' THEN {"dispatched"} ELSE {})
                  \cup (IF id \in QueueIds(pending_requests')
                        THEN {"queued"} ELSE {})
                  \cup (IF \E k \in 1..Len(acks') :
                               /\ acks'[k].id = id
                               /\ acks'[k].status = "rejected"
                        THEN {"rejected"} ELSE {})
          IN Cardinality(places) = 1]_vars

\* the requests that hold an executor slot: dispatched and not yet completed
Running == DispatchedIds \ completed

\* C37: in every reachable state of the pool current_load equals the number
\* of requests dispatched and not yet completed; it is 0 again once all
\* dispatched requests have completed.
C37_LoadCountsRunning == current_load = Cardinality(Running)

-----------------------------------------------------------------------------
(* What the retry loop returns without a successful attempt; SpecExec *)

\* the handler responses that carry a StepResult of status ok
OkResponses == {"200", "written", "read", "rows", "approved", "pending", "ok"}
SomeAttemptOk == \E k \in 1..Len(responses) : responses[k] \in OkResponses

\* C38: the retry loop returns status = ok only if some attempt returned ok:
\* when no attempt was made (retry_count < 0) or no attempt returned ok, the
\* returned status is not ok.
C38_OkOnlyFromOkAttempt ==
    (pc \in {"done", "finished"} /\ returned.status = "ok") => SomeAttemptOk

\* C39: with advanced retry on and timeout_ms > 0, attempt 0 is always
\* started: a budget-exhaustion timeout is never returned for a request on
\* which no attempt was made.
C39_FirstAttemptAlwaysStarted ==
    ( /\ pc \in {"done", "finished"}
      /\ is_advanced_retry_enabled
      /\ req.timeout_ms > 0
      /\ returned.status = "timeout"
      /\ exhausted_seen )
    => attempts_started >= 1

-----------------------------------------------------------------------------
(* The legacy thread pool; checked under SpecActorPool *)

====
